---- MODULE Spec2Model ----
(***************************************************************************)
(* The real-time connection and signaling subsystem (socketHandler.js):    *)
(* the connection registry, the authentication middleware, the event       *)
(* handlers of a connection and the disconnect handler, as a state machine.*)
(* Handlers run to completion up to their next await; every await of a     *)
(* store call ends one action and its continuation is another action.      *)
(***************************************************************************)
EXTENDS Integers, Sequences, FiniteSets, TLC

VARIABLES
  connectionManager,  \* [userSockets, socketUsers, socketRooms]: the three Maps
  userCache,          \* userId -> [cachedAt]
  activeConnections,  \* userId -> count (the provisional counter)
  conn,               \* socket id -> [userId, phase, reason, rooms]: the transport's sockets
  nextSocket,         \* the next fresh socket id
  arrived,            \* the number of handshakes that arrived so far
  now,                \* Date.now(), in milliseconds
  messageTimestamps,  \* socket id -> sequence of timestamps (per-connection closure state)
  typingTimeouts,     \* socket id -> (roomId -> timer id) (per-connection closure state)
  timers,             \* the armed timers of the event loop: set of [id, sock, room, due]
  nextTimer,          \* the next fresh timer id
  tasks,              \* handler invocations suspended at an await: id -> record
  done,               \* the handler invocation that ended last
  invoked,            \* the number of events handled so far
  received,           \* the event handled last: its name, socket and payload
  store,              \* the external store's tables
  sendLog,            \* <<socket id, time>> -> how many send_message events of the socket
                      \* passed the limiter at that time, and how many were otherwise valid
  emitted,            \* the events emitted so far by the handlers that never await, in order
  server              \* [intervals, closed, fired]: the armed interval timers, whether
                      \* io.close() was called, and how many interval callbacks ran

vars == <<connectionManager, userCache, activeConnections, conn, nextSocket, arrived, now,
          messageTimestamps, typingTimeouts, timers, nextTimer, tasks, done, invoked,
          received, store, sendLog, emitted, server>>

(***************************************************************************)
(* Bounds of the model and constants of the program                        *)
(***************************************************************************)
MaxNewSockets == 3
MaxPreConnected == 9
MaxDisconnects == 1
MaxFriendEvents == 2
MaxMsgEvents == 2
MaxRateSends == 11
MaxInFlight == 2
MaxRateClock == 60002
RateTickMs == 30001
MaxTypingEvents == 3
MaxTypingTicks == 2
TypingTickMs == 2500
MaxVideoEvents == 3
MaxRoomEvents == 2
MaxLongEvents == 2
MaxOverLength == 1
MaxPayloadEvents == 3

MaxShutdownEvents == 2
MaxIntervalFirings == 2

MaxExtraRooms == 1
MaxManyRoomEvents == 2

MaxHandles == 2

MaxSweepSockets == 2
MaxSweepDisconnects == 2

MaxOnlineEvents == 3

MaxSpoofEvents == 2

MaxPaddedEvents == 2

MaxAuthSockets == 3
MaxAuthClock == 300001

USER_CACHE_TTL == 300000
MESSAGE_RATE_LIMIT == 10
MAX_MESSAGE_LENGTH == 5000
TYPING_TIMEOUT == 5000
MAX_CONNECTIONS_PER_USER == 10
ROOMS_LIMIT == 50

Users == {"u1", "u2"}
NoUser == "none"

(***************************************************************************)
(* JavaScript Maps as functions with a changing domain                     *)
(***************************************************************************)
EmptyMap == << >>
MapHas(m, k) == k \in DOMAIN m
MapSet(m, k, v) == [x \in (DOMAIN m) \cup {k} |-> IF x = k THEN v ELSE m[x]]
MapDelete(m, k) == [x \in (DOMAIN m) \ {k} |-> m[x]]

(***************************************************************************)
(* UserConnectionManager                                                   *)
(***************************************************************************)
NewConnectionManager ==
  [userSockets |-> EmptyMap, socketUsers |-> EmptyMap, socketRooms |-> EmptyMap]

addConnection(cm, userId, socketId) ==
  LET sockets == IF MapHas(cm.userSockets, userId) THEN cm.userSockets[userId] ELSE {}
  IN  [userSockets |-> MapSet(cm.userSockets, userId, sockets \cup {socketId}),
       socketUsers |-> MapSet(cm.socketUsers, socketId, userId),
       socketRooms |-> MapSet(cm.socketRooms, socketId, {})]

addRoom(cm, socketId, room) ==
  LET rooms == IF MapHas(cm.socketRooms, socketId) THEN cm.socketRooms[socketId] ELSE {}
  IN  [cm EXCEPT !.socketRooms = MapSet(cm.socketRooms, socketId, rooms \cup {room})]

removeConnection_keepsEmpty(cm, socketId) ==
  LET known  == MapHas(cm.socketUsers, socketId)
      userId == IF known THEN cm.socketUsers[socketId] ELSE NoUser
  IN  [userSockets |-> IF known /\ MapHas(cm.userSockets, userId)
                       THEN MapSet(cm.userSockets, userId, cm.userSockets[userId] \ {socketId})
                       ELSE cm.userSockets,
       socketUsers |-> MapDelete(cm.socketUsers, socketId),
       socketRooms |-> MapDelete(cm.socketRooms, socketId)]

removeConnection_wholeUser(cm, socketId) ==
  LET known  == MapHas(cm.socketUsers, socketId)
      userId == IF known THEN cm.socketUsers[socketId] ELSE NoUser
  IN  [userSockets |-> IF known THEN MapDelete(cm.userSockets, userId) ELSE cm.userSockets,
       socketUsers |-> MapDelete(cm.socketUsers, socketId),
       socketRooms |-> MapDelete(cm.socketRooms, socketId)]

removeConnection(cm, socketId) ==
  LET known  == MapHas(cm.socketUsers, socketId)
      userId == IF known THEN cm.socketUsers[socketId] ELSE NoUser
      left   == IF known /\ MapHas(cm.userSockets, userId)
                THEN cm.userSockets[userId] \ {socketId} ELSE {}
      us     == IF known /\ MapHas(cm.userSockets, userId)
                THEN (IF left = {} THEN MapDelete(cm.userSockets, userId)
                                   ELSE MapSet(cm.userSockets, userId, left))
                ELSE cm.userSockets
  IN  [userSockets |-> us,
       socketUsers |-> MapDelete(cm.socketUsers, socketId),
       socketRooms |-> MapDelete(cm.socketRooms, socketId)]

getRooms(cm, socketId) ==
  IF MapHas(cm.socketRooms, socketId) THEN cm.socketRooms[socketId] ELSE {}

getUserSocketCount(cm, userId) ==
  IF MapHas(cm.userSockets, userId) THEN Cardinality(cm.userSockets[userId]) ELSE 0

(***************************************************************************)
(* The transport (socket.io): sockets, rooms and emissions                 *)
(***************************************************************************)
RECURSIVE SetToSeq(_)
SetToSeq(S) ==
  IF S = {} THEN << >>
  ELSE LET x == CHOOSE y \in S : TRUE IN <<x>> \o SetToSeq(S \ {x})

Connected(c) == {s \in DOMAIN c : c[s].phase = "connected"}
InRoom(c, room) == {s \in Connected(c) : room \in c[s].rooms}

\* socket.emit(ev, data): to the socket itself
EmitSelf(s, ev, data) ==
  [ev |-> ev, from |-> s, room |-> <<"socket", s>>, to |-> {s}, data |-> data]
\* socket.to(room).emit(ev, data): to every socket in the room but the sender
EmitToOthers(c, s, room, ev, data) ==
  [ev |-> ev, from |-> s, room |-> room, to |-> InRoom(c, room) \ {s}, data |-> data]
\* io.to(room).emit(ev, data): to every socket in the room
EmitToRoom(c, s, room, ev, data) ==
  [ev |-> ev, from |-> s, room |-> room, to |-> InRoom(c, room), data |-> data]

NewSocket(tokenUser, phase, reason) ==
  [userId |-> NoUser, tokenUser |-> tokenUser, phase |-> phase, reason |-> reason,
   userConnectionCount |-> -1, rooms |-> {}]

(***************************************************************************)
(* io.use: the authentication middleware                                   *)
(***************************************************************************)
Credentials ==
  {[kind |-> k, id |-> NoUser] : k \in {"none", "invalid", "noid"}}
    \cup {[kind |-> "valid", id |-> u] : u \in Users \cup {"ghost"}}

CacheFresh_anyAge(cache, userId, t) == MapHas(cache, userId)

CacheFresh(cache, userId, t) ==
  MapHas(cache, userId) /\ ~(t - cache[userId].cachedAt > USER_CACHE_TTL)

LimitReached_gt(userConnectionCount) == userConnectionCount > MAX_CONNECTIONS_PER_USER

LimitReached(userConnectionCount) == userConnectionCount >= MAX_CONNECTIONS_PER_USER

CheckLimit_counted(s, tokenUser, userId) ==
  LET userConnectionCount == getUserSocketCount(connectionManager, userId)
  IN  /\ activeConnections' = MapSet(activeConnections, userId, userConnectionCount + 1)
      /\ IF LimitReached(userConnectionCount)
         THEN conn' = MapSet(conn, s,
                        [NewSocket(tokenUser, "rejected", "Maximum connections exceeded")
                           EXCEPT !.userConnectionCount = userConnectionCount])
         ELSE conn' = MapSet(conn, s,
                        [NewSocket(tokenUser, "authenticated", "")
                           EXCEPT !.userId = userId,
                                  !.userConnectionCount = userConnectionCount])

\* lines 135-150: the connection limit, then socket.userId and the counter
CheckLimit(s, tokenUser, userId) ==
  LET userConnectionCount == getUserSocketCount(connectionManager, userId)
  IN  IF LimitReached(userConnectionCount)
      THEN /\ conn' = MapSet(conn, s,
                        [NewSocket(tokenUser, "rejected", "Maximum connections exceeded")
                           EXCEPT !.userConnectionCount = userConnectionCount])
           /\ UNCHANGED activeConnections
      ELSE /\ conn' = MapSet(conn, s,
                        [NewSocket(tokenUser, "authenticated", "")
                           EXCEPT !.userId = userId,
                                  !.userConnectionCount = userConnectionCount])
           /\ activeConnections' = MapSet(activeConnections, userId, userConnectionCount + 1)

\* a handshake arrives with credential cred: the middleware up to its await
AuthMiddleware(s, cred) ==
  /\ s = nextSocket
  /\ nextSocket' = s + 1
  /\ arrived' = arrived + 1
  /\ CASE cred.kind = "none" ->
            /\ conn' = MapSet(conn, s,
                         NewSocket(NoUser, "rejected", "Authentication token required"))
            /\ UNCHANGED activeConnections
       [] cred.kind = "invalid" ->
            /\ conn' = MapSet(conn, s, NewSocket(NoUser, "rejected", "Authentication failed"))
            /\ UNCHANGED activeConnections
       [] cred.kind = "noid" ->
            /\ conn' = MapSet(conn, s,
                         NewSocket(NoUser, "rejected", "Invalid token structure"))
            /\ UNCHANGED activeConnections
       [] OTHER ->
            IF CacheFresh(userCache, cred.id, now)
            THEN CheckLimit(s, cred.id, cred.id)
            ELSE /\ conn' = MapSet(conn, s, NewSocket(cred.id, "lookup", ""))
                 /\ UNCHANGED activeConnections
  /\ UNCHANGED <<connectionManager, userCache, now, messageTimestamps, typingTimeouts,
                 timers, nextTimer, tasks, done, invoked, received, store, emitted,
                 sendLog, server>>

\* the users lookup returns: outcome is "row" (found), "error" or "throw"
AuthLookupDone(s, outcome) ==
  /\ MapHas(conn, s) /\ conn[s].phase = "lookup"
  /\ LET userId == conn[s].tokenUser
         found  == outcome = "row" /\ userId \in store.users
     IN  IF outcome = "throw"
         THEN /\ conn' = MapSet(conn, s,
                           NewSocket(userId, "rejected", "Authentication failed"))
              /\ UNCHANGED <<activeConnections, userCache>>
         ELSE IF ~found
         THEN /\ conn' = MapSet(conn, s,
                           NewSocket(userId, "rejected", "Invalid authentication token"))
              /\ UNCHANGED <<activeConnections, userCache>>
         ELSE /\ userCache' = MapSet(userCache, userId, [cachedAt |-> now])
              /\ CheckLimit(s, userId, userId)
  /\ UNCHANGED <<connectionManager, nextSocket, arrived, now, messageTimestamps,
                 typingTimeouts, timers, nextTimer, tasks, done, invoked, received, store,
                 emitted, sendLog, server>>

(***************************************************************************)
(* io.on('connection'): the handle is registered                           *)
(***************************************************************************)
Connection(s) ==
  /\ MapHas(conn, s) /\ conn[s].phase = "authenticated"
  /\ conn' = [conn EXCEPT ![s].phase = "connected"]
  /\ connectionManager' = addConnection(connectionManager, conn[s].userId, s)
  /\ messageTimestamps' = MapSet(messageTimestamps, s, << >>)
  /\ typingTimeouts' = MapSet(typingTimeouts, s, EmptyMap)
  /\ UNCHANGED <<userCache, activeConnections, nextSocket, arrived, now, timers, nextTimer,
                 tasks, done, invoked, received, store, emitted, sendLog, server>>

\* the client went away while the middleware was running: next() finds the
\* transport closed and drops the socket; 'connection' is never emitted for it,
\* so no handler of it ever runs, and the provisional counter keeps its count
Abandon(s) ==
  /\ MapHas(conn, s) /\ conn[s].phase = "authenticated"
  /\ conn' = [conn EXCEPT ![s].phase = "abandoned"]
  /\ UNCHANGED <<connectionManager, userCache, activeConnections, nextSocket, arrived, now,
                 messageTimestamps, typingTimeouts, timers, nextTimer, tasks, done, invoked,
                 received, store, emitted, sendLog, server>>

(***************************************************************************)
(* socket.on('disconnect')                                                 *)
(***************************************************************************)
\* socket.io closes the socket before it emits 'disconnect': the socket has left
\* all its rooms and is no longer among io.sockets.sockets when the handler runs
OnClose(c, s) == [c EXCEPT ![s].phase = "closed", ![s].rooms = {}]

\* lines 760-768: video_participant_left to each video room in socket.rooms
VideoLeftEvents(c, s) ==
  LET videoRooms == SetToSeq({room \in c[s].rooms : room[1] = "video"})
  IN  [i \in 1..Len(videoRooms) |->
         EmitToOthers(c, s, videoRooms[i], "video_participant_left",
                      [userId |-> c[s].userId, roomId |-> videoRooms[i][2]])]

ClearedTimers_none(s) == {}

\* lines 776-780: every typing timer of the connection is cleared
ClearedTimers(s) ==
  {t \in timers : \E roomId \in DOMAIN typingTimeouts[s] : typingTimeouts[s][roomId] = t.id}

\* lines 783-792: the provisional counter
DecrementCount(ac, userId) ==
  LET userConnectionCount == IF MapHas(ac, userId) THEN ac[userId] ELSE 0
      newCount == IF userConnectionCount - 1 > 0 THEN userConnectionCount - 1 ELSE 0
  IN  IF newCount <= 0 THEN MapDelete(ac, userId) ELSE MapSet(ac, userId, newCount)

UserOfflineEvents_socketRooms(c, cm, s) ==
  LET projectRooms == SetToSeq({room \in c[s].rooms : room[1] = "project"})
  IN  [i \in 1..Len(projectRooms) |->
         EmitToOthers(c, s, projectRooms[i], "user_offline",
                      [userId |-> c[s].userId, projectId |-> projectRooms[i][2]])]

\* lines 795-804: user_offline to each project room of the registry's record
UserOfflineEvents(c, cm, s) ==
  LET projectRooms == SetToSeq({room \in getRooms(cm, s) : room[1] = "project"})
  IN  [i \in 1..Len(projectRooms) |->
         EmitToOthers(c, s, projectRooms[i], "user_offline",
                      [userId |-> c[s].userId, projectId |-> projectRooms[i][2]])]

Disconnect(s) ==
  /\ MapHas(conn, s) /\ conn[s].phase = "connected"
  /\ conn' = OnClose(conn, s)
  /\ emitted' = emitted \o VideoLeftEvents(conn', s)
                        \o UserOfflineEvents(conn', connectionManager, s)
  /\ timers' = timers \ ClearedTimers(s)
  /\ typingTimeouts' = [typingTimeouts EXCEPT ![s] = EmptyMap]
  /\ activeConnections' = DecrementCount(activeConnections, conn[s].userId)
  /\ connectionManager' = removeConnection(connectionManager, s)
  /\ UNCHANGED <<userCache, nextSocket, arrived, now, messageTimestamps, nextTimer, tasks,
                 done, invoked, received, store, sendLog, server>>

(***************************************************************************)
(* Handler invocations that await the store. An invocation of an async     *)
(* handler is a record: its socket, its arguments, the await it is         *)
(* suspended at (stage), and what it did: its result, the events it        *)
(* emitted in order (emits) and the rows it inserted. It is in tasks while *)
(* it is suspended; done is the invocation that ended last.                *)
(***************************************************************************)
\* an event of a connected socket is dispatched to its handler
NoEvent == [ev |-> "none", sock |-> 0, data |-> [none |-> TRUE]]

Receive(ev, s, data) ==
  /\ invoked' = invoked + 1
  /\ received' = [ev |-> ev, sock |-> s, data |-> data]

NextTask == CHOOSE id \in 1..(Cardinality(DOMAIN tasks) + 1) : id \notin DOMAIN tasks

NewTask(kind, s, data, stage) ==
  [kind |-> kind, sock |-> s, userId |-> conn[s].userId, data |-> data, stage |-> stage,
   result |-> "", storeError |-> FALSE, emits |-> << >>, inserted |-> 0]

NoTask ==
  [kind |-> "none", sock |-> 0, userId |-> NoUser, data |-> [none |-> TRUE],
   stage |-> "done", result |-> "", storeError |-> FALSE, emits |-> << >>, inserted |-> 0]

Suspended(id, kind, stage) ==
  /\ MapHas(tasks, id)
  /\ tasks[id].kind = kind
  /\ tasks[id].stage = stage

\* the invocation ends: it emitted events es (in order) with the given result
Finish(task, result, es) ==
  [task EXCEPT !.stage = "done", !.result = result, !.emits = task.emits \o es]

\* an event arrives and its handler runs to its first await
Suspend(task) ==
  /\ tasks' = MapSet(tasks, NextTask, task)
  /\ Receive(task.kind, task.sock, task.data)
  /\ UNCHANGED <<done, emitted>>

\* an event arrives and its handler ends without awaiting
EndAtOnce(task, result, es) ==
  /\ done' = Finish(task, result, es)
  /\ Receive(task.kind, task.sock, task.data)
  /\ UNCHANGED <<tasks, emitted>>

\* a suspended invocation resumes and ends
End(id, task, result, es) ==
  /\ done' = Finish(task, result, es)
  /\ tasks' = MapDelete(tasks, id)
  /\ UNCHANGED <<invoked, received, emitted>>

\* a suspended invocation resumes and suspends again at the next await
Continue(id, task) ==
  /\ tasks' = [tasks EXCEPT ![id] = task]
  /\ UNCHANGED <<done, invoked, received, emitted>>

ErrorEvent(s, message) == EmitSelf(s, "error", [message |-> message])

(***************************************************************************)
(* Strings: content is a sequence of characters; " " is whitespace         *)
(***************************************************************************)
IsSpace(ch) == ch = " "

\* the characters before the first and after the last one that is not
\* whitespace are dropped
TrimStart(str) ==
  IF \A i \in 1..Len(str) : IsSpace(str[i]) THEN << >>
  ELSE LET first == CHOOSE i \in 1..Len(str) :
                      ~IsSpace(str[i]) /\ \A j \in 1..(i - 1) : IsSpace(str[j])
       IN  SubSeq(str, first, Len(str))

TrimEnd(str) ==
  IF \A i \in 1..Len(str) : IsSpace(str[i]) THEN << >>
  ELSE LET last == CHOOSE i \in 1..Len(str) :
                     ~IsSpace(str[i]) /\ \A j \in (i + 1)..Len(str) : IsSpace(str[j])
       IN  SubSeq(str, 1, last)

Trim(str) == TrimEnd(TrimStart(str))

\* a payload field is [defined, value]; an absent field is undefined
Undefined == [defined |-> FALSE, value |-> << >>]
Str(chars) == [defined |-> TRUE, value |-> chars]
NoId == [defined |-> FALSE, value |-> ""]
Id(id) == [defined |-> TRUE, value |-> id]
\* the id of a chat message, a number: replyToMessageId = null by default
NoMessageId == [defined |-> FALSE, value |-> 0]
MessageId(id) == [defined |-> TRUE, value |-> id]
\* !content?.trim()
BlankContent(content) == ~content.defined \/ Trim(content.value) = << >>

(***************************************************************************)
(* socket.on('join_friends_chat')                                          *)
(***************************************************************************)
AcceptedOf(friendships, userId) ==
  {f \in friendships :
     /\ f.status = "accepted"
     /\ (f.requester_id = userId \/ f.addressee_id = userId)}

JoinFriendsChat(s) ==
  /\ MapHas(conn, s) /\ conn[s].phase = "connected"
  /\ conn' = [conn EXCEPT ![s].rooms = @ \cup {<<"user", conn[s].userId>>}]
  /\ Suspend(NewTask("join_friends_chat", s, [none |-> TRUE], "friendships"))
  /\ UNCHANGED <<connectionManager, userCache, activeConnections, nextSocket, arrived, now,
                 messageTimestamps, typingTimeouts, timers, nextTimer, store, sendLog,
                 server>>

\* lines 209-225: friend_online to each friend's mailbox room, then the list of
\* the friends that have a live connection
FriendsOnlineEvents(c, s, userId, rows) ==
  LET friendIds == [i \in 1..Len(rows) |->
                      IF rows[i].requester_id = userId
                      THEN rows[i].addressee_id ELSE rows[i].requester_id]
      online == [i \in 1..Len(friendIds) |->
                   EmitToRoom(c, s, <<"user", friendIds[i]>>, "friend_online",
                              [userId |-> userId])]
      onlineFriends == {friendIds[i] : i \in {j \in 1..Len(friendIds) :
                           \E k \in Connected(c) : c[k].userId = friendIds[j]}}
  IN  Append(online, EmitSelf(s, "online_friends_list", [onlineFriends |-> onlineFriends]))

\* the friendships query returns: outcome is "ok", "error" (data is null) or "throw"
FriendshipsListed(id, outcome) ==
  /\ Suspended(id, "join_friends_chat", "friendships")
  /\ LET task == [tasks[id] EXCEPT !.storeError = outcome # "ok"]
         rows == IF outcome = "ok"
                 THEN SetToSeq(AcceptedOf(store.friendships, task.userId)) ELSE << >>
     IN  IF outcome = "throw"
         THEN End(id, task, "threw", << >>)
         ELSE End(id, task, "listed", FriendsOnlineEvents(conn, task.sock, task.userId, rows))
  /\ UNCHANGED <<connectionManager, userCache, activeConnections, conn, nextSocket,
                 arrived, now, messageTimestamps, typingTimeouts, timers, nextTimer, store,
                 sendLog, server>>

(***************************************************************************)
(* socket.on('send_friend_message')                                        *)
(***************************************************************************)
\* the rows the friendship query's filter selects: an accepted row in either direction
FriendshipRows(friendships, senderId, recipientId) ==
  {f \in friendships :
     /\ f.status = "accepted"
     /\ \/ f.requester_id = senderId /\ f.addressee_id = recipientId
        \/ f.requester_id = recipientId /\ f.addressee_id = senderId}

FriendshipFound_maybeSingle(rows, outcome) == outcome = "ok" /\ Cardinality(rows) <= 1

\* .single() gives the row only if exactly one row is selected, an error otherwise;
\* line 253: friendshipError || !friendship
FriendshipFound(rows, outcome) == outcome = "ok" /\ Cardinality(rows) = 1

SendFriendMessage(s, data) ==
  /\ MapHas(conn, s) /\ conn[s].phase = "connected"
  /\ IF ~data.recipientId.defined \/ BlankContent(data.content)
     THEN EndAtOnce(NewTask("send_friend_message", s, data, "start"), "invalid",
                    <<ErrorEvent(s, "Invalid message data")>>)
     ELSE Suspend(NewTask("send_friend_message", s, data, "friendship"))
  /\ UNCHANGED <<connectionManager, userCache, activeConnections, conn, nextSocket,
                 arrived, now, messageTimestamps, typingTimeouts, timers, nextTimer, store,
                 sendLog, server>>

\* the friendship query returns
FriendshipChecked(id, outcome) ==
  /\ Suspended(id, "send_friend_message", "friendship")
  /\ LET task == [tasks[id] EXCEPT !.storeError = outcome # "ok"]
         rows == FriendshipRows(store.friendships, task.userId, task.data.recipientId.value)
     IN  IF outcome = "throw"
         THEN End(id, task, "threw", <<ErrorEvent(task.sock, "Failed to send message")>>)
         ELSE IF ~FriendshipFound(rows, outcome)
         THEN End(id, task, "not_friends",
                  <<ErrorEvent(task.sock, "Not friends with this user")>>)
         ELSE Continue(id, [task EXCEPT !.stage = "insert"])
  /\ UNCHANGED <<connectionManager, userCache, activeConnections, conn, nextSocket,
                 arrived, now, messageTimestamps, typingTimeouts, timers, nextTimer, store,
                 sendLog, server>>

\* the insert into friend_messages returns
FriendMessageInserted(id, outcome) ==
  /\ Suspended(id, "send_friend_message", "insert")
  /\ LET task == [tasks[id] EXCEPT !.storeError = @ \/ outcome # "ok"]
         s    == task.sock
         recipientId == task.data.recipientId.value
         message == [sender_id |-> task.userId, recipient_id |-> recipientId,
                     content |-> Trim(task.data.content.value)]
     IN  IF outcome # "ok"
         THEN /\ End(id, task, IF outcome = "throw" THEN "threw" ELSE "insert_failed",
                     <<ErrorEvent(s, "Failed to send message")>>)
              /\ UNCHANGED store
         ELSE /\ store' = [store EXCEPT !.friend_messages = Append(@, message)]
              /\ End(id, [task EXCEPT !.inserted = 1], "sent",
                     << EmitToRoom(conn, s, <<"user", recipientId>>, "friend_message",
                                   [senderId |-> task.userId, message |-> message]),
                        EmitSelf(s, "friend_message_sent", [message |-> message]) >>)
  /\ UNCHANGED <<connectionManager, userCache, activeConnections, conn, nextSocket,
                 arrived, now, messageTimestamps, typingTimeouts, timers, nextTimer,
                 sendLog, server>>

(***************************************************************************)
(* socket.on('join_project_rooms')                                         *)
(***************************************************************************)
Single_unchecked(rows, outcome) == outcome = "ok"

\* .single(): the row if exactly one row is selected, an error otherwise
Single(rows, outcome) == outcome = "ok" /\ Cardinality(rows) = 1

MembershipRows(members, projectId, userId) ==
  {m \in members : m.project_id = projectId /\ m.user_id = userId}

RoomsOfProject(rooms, projectId) == {r \in rooms : r.project_id = projectId}

\* line 303: .limit(50), with no order: any ROOMS_LIMIT of the rows, or all of
\* them when there are no more than that; the set of the possible results
RECURSIVE Limit(_, _)
Limit(rows, n) ==
  IF Cardinality(rows) <= n THEN {rows}
  ELSE UNION {Limit(rows \ {r}, n) : r \in rows}

RECURSIVE AddRooms(_, _, _)
AddRooms(cm, socketId, roomNames) ==
  IF roomNames = << >> THEN cm
  ELSE AddRooms(addRoom(cm, socketId, Head(roomNames)), socketId, Tail(roomNames))

\* socket.join(rooms): nothing once the socket is closed
SocketJoin(c, s, roomNames) ==
  IF c[s].phase = "connected" THEN [c EXCEPT ![s].rooms = @ \cup roomNames] ELSE c

JoinProjectRooms(s, projectId) ==
  /\ MapHas(conn, s) /\ conn[s].phase = "connected"
  /\ Suspend(NewTask("join_project_rooms", s, [projectId |-> projectId], "lookup"))
  /\ UNCHANGED <<connectionManager, userCache, activeConnections, conn, nextSocket,
                 arrived, now, messageTimestamps, typingTimeouts, timers, nextTimer, store,
                 sendLog, server>>

\* both queries of the Promise.all returned (or one of them threw)
ProjectRoomsLooked(id, membershipOutcome, roomsOutcome) ==
  /\ Suspended(id, "join_project_rooms", "lookup")
  /\ \E rooms \in Limit(RoomsOfProject(store.chat_rooms, tasks[id].data.projectId),
                        ROOMS_LIMIT) :
     LET task == [tasks[id] EXCEPT
                    !.storeError = membershipOutcome # "ok" \/ roomsOutcome # "ok"]
         s == task.sock
         projectId == task.data.projectId
         membership == MembershipRows(store.project_members, projectId, task.userId)
         roomNames == {<<"project", projectId>>} \cup {<<"room", r.id>> : r \in rooms}
         fail(result, message) ==
           /\ End(id, task, result, <<ErrorEvent(s, message)>>)
           /\ UNCHANGED <<conn, connectionManager>>
     IN  IF membershipOutcome = "throw" \/ roomsOutcome = "throw"
         THEN fail("threw", "Failed to join project rooms")
         ELSE IF ~Single(membership, membershipOutcome)
         THEN fail("not_member", "Not a project member")
         ELSE IF roomsOutcome = "error"
         THEN fail("rooms_failed", "Failed to fetch chat rooms")
         ELSE /\ conn' = SocketJoin(conn, s, roomNames)
              /\ connectionManager' =
                   AddRooms(connectionManager, s,
                            <<<<"project", projectId>>>>
                              \o SetToSeq({<<"room", r.id>> : r \in rooms}))
              /\ End(id, task, "joined",
                     <<EmitSelf(s, "rooms_joined", [projectId |-> projectId, rooms |-> rooms])>>)
  /\ UNCHANGED <<userCache, activeConnections, nextSocket, arrived, now, messageTimestamps,
                 typingTimeouts, timers, nextTimer, store, sendLog, server>>

(***************************************************************************)
(* socket.on('send_message')                                               *)
(***************************************************************************)
\* lines 347-357: the rate limiter over the connection's messageTimestamps
RecentMessages(timestamps, oneMinuteAgo) ==
  SelectSeq(timestamps, LAMBDA ts : ts > oneMinuteAgo)

\* line 349: recentMessages.length >= MESSAGE_RATE_LIMIT
RateLimited(timestamps, oneMinuteAgo) ==
  Len(RecentMessages(timestamps, oneMinuteAgo)) >= MESSAGE_RATE_LIMIT

RECURSIVE ShiftOld(_, _)
ShiftOld(timestamps, oneMinuteAgo) ==
  IF Len(timestamps) > 0 /\ timestamps[1] < oneMinuteAgo
  THEN ShiftOld(Tail(timestamps), oneMinuteAgo) ELSE timestamps

\* line 362: !roomId || !content?.trim() || !projectId
InvalidMessageData(data) ==
  ~data.roomId.defined \/ BlankContent(data.content) \/ ~data.projectId.defined

Slice_whole(str, n) == str

\* line 368: content.slice(0, MAX_MESSAGE_LENGTH)
Slice(str, n) == SubSeq(str, 1, IF Len(str) < n THEN Len(str) ELSE n)

ChatRoomRows(rooms, roomId) == {r \in rooms : r.id = roomId}

\* a send_message that would succeed if the rate limiter and the store let it
OtherwiseValid(userId, data) ==
  /\ ~InvalidMessageData(data)
  /\ Cardinality(ChatRoomRows(store.chat_rooms, data.roomId.value)) = 1
  /\ Cardinality(MembershipRows(store.project_members, data.projectId.value, userId)) = 1

LogSend(log, s, t, passed, valid) ==
  LET old == IF MapHas(log, <<s, t>>) THEN log[<<s, t>>]
             ELSE [passed |-> 0, valid |-> 0]
  IN  MapSet(log, <<s, t>>,
             [passed |-> old.passed + (IF passed THEN 1 ELSE 0),
              valid  |-> old.valid + (IF valid THEN 1 ELSE 0)])

SendMessage(s, data) ==
  /\ MapHas(conn, s) /\ conn[s].phase = "connected"
  /\ LET oneMinuteAgo == now - 60000
         limited == RateLimited(messageTimestamps[s], oneMinuteAgo)
         task == [NewTask("send_message", s, data, "start") EXCEPT !.data =
                    [roomId |-> data.roomId, projectId |-> data.projectId,
                     content |-> data.content, replyToMessageId |-> data.replyToMessageId,
                     now |-> now]]
     IN  /\ sendLog' = LogSend(sendLog, s, now, ~limited, OtherwiseValid(conn[s].userId, data))
         /\ IF limited
            THEN /\ EndAtOnce(task, "rate_limited",
                              <<ErrorEvent(s, "Message rate limit exceeded")>>)
                 /\ UNCHANGED messageTimestamps
            ELSE /\ messageTimestamps' =
                      [messageTimestamps EXCEPT ![s] = ShiftOld(Append(@, now), oneMinuteAgo)]
                 /\ IF InvalidMessageData(data)
                    THEN EndAtOnce(task, "invalid", <<ErrorEvent(s, "Invalid message data")>>)
                    ELSE Suspend([task EXCEPT !.stage = "verify"])
  /\ UNCHANGED <<connectionManager, userCache, activeConnections, conn, nextSocket,
                 arrived, now, typingTimeouts, timers, nextTimer, store, server>>

\* lines 385-393: the checks on the two results of the Promise.all
RoomFound(roomRows, roomOutcome) == Single(roomRows, roomOutcome)

\* both verification queries returned (or one of them threw)
MessageVerified(id, roomOutcome, membershipOutcome) ==
  /\ Suspended(id, "send_message", "verify")
  /\ LET task == [tasks[id] EXCEPT
                    !.storeError = roomOutcome # "ok" \/ membershipOutcome # "ok"]
         s == task.sock
         roomRows == ChatRoomRows(store.chat_rooms, task.data.roomId.value)
         membership == MembershipRows(store.project_members, task.data.projectId.value,
                                      task.userId)
     IN  IF roomOutcome = "throw" \/ membershipOutcome = "throw"
         THEN End(id, task, "threw", <<ErrorEvent(s, "Failed to send message")>>)
         ELSE IF ~RoomFound(roomRows, roomOutcome)
         THEN End(id, task, "no_room", <<ErrorEvent(s, "Chat room not found")>>)
         ELSE IF ~Single(membership, membershipOutcome)
         THEN End(id, task, "not_member", <<ErrorEvent(s, "Not a project member")>>)
         ELSE Continue(id, [task EXCEPT !.stage = "insert"])
  /\ UNCHANGED <<connectionManager, userCache, activeConnections, conn, nextSocket,
                 arrived, now, messageTimestamps, typingTimeouts, timers, nextTimer, store,
                 sendLog, server>>

\* lines 417-421 and 441-450: new_message to the others in the room, message_sent
\* to the sender; message is the processed message
MessageEvents(c, s, task, message) ==
  LET roomId == task.data.roomId.value
      room == CHOOSE r \in ChatRoomRows(store.chat_rooms, roomId) : TRUE
  IN  << EmitToOthers(c, s, <<"room", roomId>>, "new_message",
                      [message |-> message, roomId |-> roomId,
                       projectId |-> room.project_id]),
         EmitSelf(s, "message_sent", [message |-> message, roomId |-> roomId]) >>

\* the insert into chat_messages returns
MessageInserted(id, outcome) ==
  /\ Suspended(id, "send_message", "insert")
  /\ LET task == [tasks[id] EXCEPT !.storeError = @ \/ outcome # "ok"]
         s == task.sock
         row == [id |-> Len(store.chat_messages) + 1,
                 room_id |-> task.data.roomId.value,
                 user_id |-> task.userId,
                 message_type |-> "text",
                 content |-> Slice(task.data.content.value, MAX_MESSAGE_LENGTH),
                 reply_to_message_id |-> task.data.replyToMessageId]
     IN  IF outcome # "ok"
         THEN /\ End(id, task, IF outcome = "throw" THEN "threw" ELSE "insert_failed",
                     <<ErrorEvent(s, "Failed to send message")>>)
              /\ UNCHANGED store
         ELSE /\ store' = [store EXCEPT !.chat_messages = Append(@, row)]
              /\ IF task.data.replyToMessageId.defined
                 THEN Continue(id, [task EXCEPT !.stage = "reply", !.inserted = row.id])
                 ELSE End(id, [task EXCEPT !.inserted = row.id], "sent",
                          MessageEvents(conn, s, task, [row |-> row, reply_to |-> NoMessageId]))
  /\ UNCHANGED <<connectionManager, userCache, activeConnections, conn, nextSocket,
                 arrived, now, messageTimestamps, typingTimeouts, timers, nextTimer,
                 sendLog, server>>

\* the lookup of the replied-to message returns
ReplyFetched(id, outcome) ==
  /\ Suspended(id, "send_message", "reply")
  /\ LET task == [tasks[id] EXCEPT !.storeError = @ \/ outcome # "ok"]
         s == task.sock
         row == store.chat_messages[task.inserted]
         replyId == task.data.replyToMessageId.value
         found == outcome = "ok" /\ replyId \in 1..Len(store.chat_messages)
     IN  IF outcome = "throw"
         THEN End(id, task, "threw", <<ErrorEvent(s, "Failed to send message")>>)
         ELSE End(id, task, "sent",
                  MessageEvents(conn, s, task,
                                [row |-> row,
                                 reply_to |-> IF found THEN MessageId(replyId) ELSE NoMessageId]))
  /\ UNCHANGED <<connectionManager, userCache, activeConnections, conn, nextSocket,
                 arrived, now, messageTimestamps, typingTimeouts, timers, nextTimer, store,
                 sendLog, server>>

(***************************************************************************)
(* socket.on('typing_start') / socket.on('typing_stop') and the timer      *)
(***************************************************************************)
ClearTimeoutOf_forgotten(armed, timeouts, roomId) == armed

\* clearTimeout(typingTimeouts.get(roomId)), if the room has an entry
ClearTimeoutOf(armed, timeouts, roomId) ==
  IF MapHas(timeouts, roomId) THEN {t \in armed : t.id # timeouts[roomId]} ELSE armed

TypingEvent(c, s, ev, roomId, projectId) ==
  EmitToOthers(c, s, <<"room", roomId>>, ev,
               [userId |-> c[s].userId, roomId |-> roomId, projectId |-> projectId])

\* lines 468-473: user_typing is broadcast on every typing_start
TypingStartEvents(c, s, roomId, projectId) ==
  <<TypingEvent(c, s, "user_typing", roomId, projectId)>>

TypingStart(s, roomId, projectId) ==
  /\ MapHas(conn, s) /\ conn[s].phase = "connected"
  /\ timers' = ClearTimeoutOf(timers, typingTimeouts[s], roomId)
                 \cup {[id |-> nextTimer, sock |-> s, room |-> roomId,
                        projectId |-> projectId, due |-> now + TYPING_TIMEOUT]}
  /\ nextTimer' = nextTimer + 1
  /\ typingTimeouts' = [typingTimeouts EXCEPT ![s] = MapSet(@, roomId, nextTimer)]
  /\ emitted' = emitted \o TypingStartEvents(conn, s, roomId, projectId)
  /\ Receive("typing_start", s, [roomId |-> roomId, projectId |-> projectId])
  /\ UNCHANGED <<connectionManager, userCache, activeConnections, conn, nextSocket,
                 arrived, now, messageTimestamps, tasks, done, store, sendLog, server>>

TimeoutEntryRemoved_kept(timeouts, roomId) == timeouts

\* line 481: typingTimeouts.delete(roomId)
TimeoutEntryRemoved(timeouts, roomId) == MapDelete(timeouts, roomId)

\* the callback of setTimeout runs: the timer is due and was not cleared
TypingTimeout(t) ==
  /\ t \in timers
  /\ now >= t.due
  /\ timers' = timers \ {t}
  /\ emitted' = Append(emitted, TypingEvent(conn, t.sock, "user_stopped_typing", t.room,
                                            t.projectId))
  /\ typingTimeouts' = [typingTimeouts EXCEPT ![t.sock] = TimeoutEntryRemoved(@, t.room)]
  /\ UNCHANGED <<connectionManager, userCache, activeConnections, conn, nextSocket,
                 arrived, now, messageTimestamps, nextTimer, tasks, done, invoked,
                 received, store, sendLog, server>>

TypingStop(s, roomId, projectId) ==
  /\ MapHas(conn, s) /\ conn[s].phase = "connected"
  /\ timers' = ClearTimeoutOf(timers, typingTimeouts[s], roomId)
  /\ typingTimeouts' = [typingTimeouts EXCEPT ![s] = MapDelete(@, roomId)]
  /\ emitted' = Append(emitted, TypingEvent(conn, s, "user_stopped_typing", roomId, projectId))
  /\ Receive("typing_stop", s, [roomId |-> roomId, projectId |-> projectId])
  /\ UNCHANGED <<connectionManager, userCache, activeConnections, conn, nextSocket,
                 arrived, now, messageTimestamps, nextTimer, tasks, done, store, sendLog,
                 server>>

(***************************************************************************)
(* socket.on('get_online_users')                                           *)
(***************************************************************************)
\* io.sockets.sockets.forEach visits the sockets in the order they connected
RECURSIVE InOrder(_)
InOrder(sockets) ==
  IF sockets = {} THEN << >>
  ELSE LET first == CHOOSE x \in sockets : \A y \in sockets : x <= y
       IN  <<first>> \o InOrder(sockets \ {first})

OnlineSockets_registered(c, projectId) ==
  {clientSocket \in DOMAIN c :
     c[clientSocket].userId # NoUser /\ MapHas(connectionManager.socketRooms, clientSocket)
       /\ <<"project", projectId>> \in connectionManager.socketRooms[clientSocket]}

\* line 508: clientSocket.userId && clientSocket.rooms.has(`project_${projectId}`)
OnlineSockets(c, projectId) ==
  {clientSocket \in Connected(c) :
     c[clientSocket].userId # NoUser /\ <<"project", projectId>> \in c[clientSocket].rooms}

\* the reply: one entry per socket found; sockets names the sockets the entries
\* come from
OnlineUsers(c, projectId) ==
  LET found == InOrder(OnlineSockets(c, projectId))
  IN  [projectId |-> projectId,
       users |-> [i \in 1..Len(found) |-> [id |-> c[found[i]].userId]],
       sockets |-> OnlineSockets(c, projectId)]

GetOnlineUsers(s, projectId) ==
  /\ MapHas(conn, s) /\ conn[s].phase = "connected"
  /\ emitted' = Append(emitted, EmitSelf(s, "online_users", OnlineUsers(conn, projectId)))
  /\ Receive("get_online_users", s, [projectId |-> projectId])
  /\ UNCHANGED <<connectionManager, userCache, activeConnections, conn, nextSocket,
                 arrived, now, messageTimestamps, typingTimeouts, timers, nextTimer, tasks,
                 done, store, sendLog, server>>

(***************************************************************************)
(* Video signaling                                                         *)
(***************************************************************************)
\* clientSocket.emit(ev, data): to one socket, from the handler of socket s
EmitDirect(s, clientSocket, ev, data) ==
  [ev |-> ev, from |-> s, room |-> <<"socket", clientSocket>>, to |-> {clientSocket},
   data |-> data]

\* data is [roomId, userId]: the user id is the one the client put in the payload
VideoCallJoin(s, data) ==
  /\ MapHas(conn, s) /\ conn[s].phase = "connected"
  /\ conn' = SocketJoin(conn, s, {<<"video", data.roomId>>})
  /\ emitted' = Append(emitted,
                  EmitToOthers(conn', s, <<"video", data.roomId>>, "video_participant_joined",
                               [userId |-> data.userId, roomId |-> data.roomId]))
  /\ tasks' = MapSet(tasks, NextTask, NewTask("video_call_join", s, data, "fetchSockets"))
  /\ Receive("video_call_join", s, data)
  /\ UNCHANGED <<connectionManager, userCache, activeConnections, nextSocket, arrived, now,
                 messageTimestamps, typingTimeouts, timers, nextTimer, done, store,
                 sendLog, server>>

\* io.in(videoRoomName).fetchSockets() returns
VideoSocketsFetched(id) ==
  /\ Suspended(id, "video_call_join", "fetchSockets")
  /\ LET task == tasks[id]
         s == task.sock
         participants == {conn[c].userId :
                            c \in InRoom(conn, <<"video", task.data.roomId>>) \ {s}}
     IN  End(id, task, "joined",
             <<EmitSelf(s, "video_current_participants",
                        [participants |-> participants, roomId |-> task.data.roomId])>>)
  /\ UNCHANGED <<connectionManager, userCache, activeConnections, conn, nextSocket,
                 arrived, now, messageTimestamps, typingTimeouts, timers, nextTimer, store,
                 sendLog, server>>

SignalTargets_anyRoom(c, videoRoomName, targetUserId) ==
  {clientSocket \in Connected(c) : c[clientSocket].userId = targetUserId}

\* lines 578-588, 606-615, 629-637: the sockets the forEach emits to
SignalTargets(c, videoRoomName, targetUserId) ==
  {clientSocket \in Connected(c) :
     c[clientSocket].userId = targetUserId /\ videoRoomName \in c[clientSocket].rooms}

\* video_offer, video_answer and video_ice_candidate: ev is the event's name;
\* event numbers the handled events
VideoSignal(s, ev, roomId, targetUserId) ==
  /\ MapHas(conn, s) /\ conn[s].phase = "connected"
  /\ LET targets == SetToSeq(SignalTargets(conn, <<"video", roomId>>, targetUserId))
     IN  emitted' = emitted \o
           [i \in 1..Len(targets) |->
              EmitDirect(s, targets[i], ev,
                         [userId |-> conn[s].userId, roomId |-> roomId,
                          targetUserId |-> targetUserId, event |-> invoked + 1])]
  /\ Receive(ev, s, [roomId |-> roomId, targetUserId |-> targetUserId])
  /\ UNCHANGED <<connectionManager, userCache, activeConnections, conn, nextSocket,
                 arrived, now, messageTimestamps, typingTimeouts, timers, nextTimer, tasks,
                 done, store, sendLog, server>>

\* socket.leave(room)
SocketLeave(c, s, roomName) == [c EXCEPT ![s].rooms = @ \ {roomName}]

VideoCallLeave(s, data) ==
  /\ MapHas(conn, s) /\ conn[s].phase = "connected"
  /\ conn' = SocketLeave(conn, s, <<"video", data.roomId>>)
  /\ emitted' = Append(emitted,
                  EmitToOthers(conn', s, <<"video", data.roomId>>, "video_participant_left",
                               [userId |-> data.userId, roomId |-> data.roomId]))
  /\ Receive("video_call_leave", s, data)
  /\ UNCHANGED <<connectionManager, userCache, activeConnections, nextSocket, arrived, now,
                 messageTimestamps, typingTimeouts, timers, nextTimer, tasks, done, store,
                 sendLog, server>>

\* screen_share_started and screen_share_stopped (lines 688-728): ev is the
\* event's name; data is [roomId, userId], userId as the client sent it
ScreenShare(s, ev, data) ==
  /\ MapHas(conn, s) /\ conn[s].phase = "connected"
  /\ emitted' = Append(emitted,
                  EmitToOthers(conn, s, <<"video", data.roomId>>, ev,
                               [userId |-> data.userId, roomId |-> data.roomId]))
  /\ Receive(ev, s, data)
  /\ UNCHANGED <<connectionManager, userCache, activeConnections, conn, nextSocket,
                 arrived, now, messageTimestamps, typingTimeouts, timers, nextTimer, tasks,
                 done, store, sendLog, server>>

\* video_call_message (lines 730-756): data is [roomId, userId, message]; a
\* message that is absent or blank is dropped silently
VideoCallMessage(s, data) ==
  /\ MapHas(conn, s) /\ conn[s].phase = "connected"
  /\ emitted' =
       IF BlankContent(data.message) THEN emitted
       ELSE Append(emitted,
              EmitToOthers(conn, s, <<"video", data.roomId>>, "video_call_message",
                           [userId |-> data.userId, message |-> Trim(data.message.value),
                            roomId |-> data.roomId]))
  /\ Receive("video_call_message", s, data)
  /\ UNCHANGED <<connectionManager, userCache, activeConnections, conn, nextSocket,
                 arrived, now, messageTimestamps, typingTimeouts, timers, nextTimer, tasks,
                 done, store, sendLog, server>>

(***************************************************************************)
(* Events that arrive with no payload: data is undefined, and the          *)
(* destructuring const { ... } = data throws a TypeError.                  *)
(***************************************************************************)
Absent == [absent |-> TRUE]

\* lines 462, 488, 504: these handlers destructure outside any try
UnguardedEvents == {"typing_start", "typing_stop", "get_online_users"}

\* the handlers that destructure inside a try whose catch only logs
LoggedEvents ==
  {"video_offer", "video_answer", "video_ice_candidate", "video_call_leave",
   "screen_share_started", "screen_share_stopped", "video_call_message"}

\* the handlers that destructure inside a try whose catch emits an error
CaughtError(ev) ==
  CASE ev = "send_friend_message" -> "Failed to send message"
    [] ev = "video_call_join"     -> "Failed to join video call"

\* the TypeError leaves the handler: nothing catches it in this file
ThrowsWithoutPayload(s, ev) ==
  /\ MapHas(conn, s) /\ conn[s].phase = "connected"
  /\ ev \in UnguardedEvents
  /\ EndAtOnce(NewTask(ev, s, Absent, "start"), "uncaught", << >>)
  /\ UNCHANGED <<connectionManager, userCache, activeConnections, conn, nextSocket,
                 arrived, now, messageTimestamps, typingTimeouts, timers, nextTimer, store,
                 sendLog, server>>

\* the TypeError is caught by the handler's catch
CatchesWithoutPayload(s, ev) ==
  /\ MapHas(conn, s) /\ conn[s].phase = "connected"
  /\ \/ /\ ev \in LoggedEvents
        /\ EndAtOnce(NewTask(ev, s, Absent, "start"), "caught", << >>)
     \/ /\ ev \in {"send_friend_message", "video_call_join"}
        /\ EndAtOnce(NewTask(ev, s, Absent, "start"), "caught",
                     <<ErrorEvent(s, CaughtError(ev))>>)
  /\ UNCHANGED <<connectionManager, userCache, activeConnections, conn, nextSocket,
                 arrived, now, messageTimestamps, typingTimeouts, timers, nextTimer, store,
                 sendLog, server>>

\* send_message with no payload: the rate limiter runs before the destructuring
SendMessageWithoutPayload(s) ==
  /\ MapHas(conn, s) /\ conn[s].phase = "connected"
  /\ LET oneMinuteAgo == now - 60000
         limited == RateLimited(messageTimestamps[s], oneMinuteAgo)
         task == NewTask("send_message", s, Absent, "start")
     IN  /\ sendLog' = LogSend(sendLog, s, now, ~limited, FALSE)
         /\ IF limited
            THEN /\ EndAtOnce(task, "rate_limited",
                              <<ErrorEvent(s, "Message rate limit exceeded")>>)
                 /\ UNCHANGED messageTimestamps
            ELSE /\ messageTimestamps' =
                      [messageTimestamps EXCEPT ![s] = ShiftOld(Append(@, now), oneMinuteAgo)]
                 /\ EndAtOnce(task, "caught", <<ErrorEvent(s, "Failed to send message")>>)
  /\ UNCHANGED <<connectionManager, userCache, activeConnections, conn, nextSocket,
                 arrived, now, typingTimeouts, timers, nextTimer, store, server>>

\* time passes
(***************************************************************************)
(* The two interval timers and process.on('SIGTERM')                       *)
(***************************************************************************)
\* lines 159-162: the user ids of the sockets in io.sockets.sockets
ConnectedUserIds(c) == {c[s].userId : s \in Connected(c)}

SweptConnections_all(ac, connectedUserIds) == EmptyMap

\* lines 165-170: entries of users with no live socket are deleted
SweptConnections(ac, connectedUserIds) ==
  [userId \in DOMAIN ac \cap connectedUserIds |-> ac[userId]]

\* an interval of setInterval fires: only while it is armed
IntervalFires(interval) ==
  /\ interval \in server.intervals
  /\ server' = [server EXCEPT !.fired = @ + 1]

\* the callback of globalCleanupInterval
cleanupStaleConnections ==
  /\ IntervalFires("globalCleanupInterval")
  /\ activeConnections' = SweptConnections(activeConnections, ConnectedUserIds(conn))
  /\ UNCHANGED <<connectionManager, userCache, conn, nextSocket, arrived, now,
                 messageTimestamps, typingTimeouts, timers, nextTimer, tasks, done, invoked,
                 received, store, sendLog, emitted>>

\* the callback of connectionManager.cleanupInterval: getStats and a log line
startCleanup ==
  /\ IntervalFires("cleanupInterval")
  /\ UNCHANGED <<connectionManager, userCache, activeConnections, conn, nextSocket, arrived,
                 now, messageTimestamps, typingTimeouts, timers, nextTimer, tasks, done,
                 invoked, received, store, sendLog, emitted>>

\* lines 80-84: clearInterval(this.cleanupInterval)
stopCleanup(intervals) == intervals \ {"cleanupInterval"}

\* lines 816-823: both intervals are cleared and io.close() is called. io.close()
\* closes every live connection: their disconnect handlers run, one by one,
\* before any further event is dispatched (Disconnect, while server.closed).
Sigterm ==
  /\ ~server.closed
  /\ server' = [server EXCEPT
                  !.intervals = stopCleanup(@ \ {"globalCleanupInterval"}),
                  !.closed = TRUE]
  /\ UNCHANGED <<connectionManager, userCache, activeConnections, conn, nextSocket, arrived,
                 now, messageTimestamps, typingTimeouts, timers, nextTimer, tasks, done,
                 invoked, received, store, sendLog, emitted>>

Tick(ms) ==
  /\ now' = now + ms
  /\ UNCHANGED <<connectionManager, userCache, activeConnections, conn, nextSocket,
                 arrived, messageTimestamps, typingTimeouts, timers, nextTimer, tasks,
                 done, invoked, received, store, sendLog, emitted, server>>

(***************************************************************************)
(* Initial states                                                          *)
(***************************************************************************)
EmptyStore ==
  [users |-> Users, friendships |-> {}, chat_rooms |-> {}, project_members |-> {},
   chat_messages |-> << >>, friend_messages |-> << >>]

\* the state after the handshakes of users[1], users[2], ... were accepted and
\* registered one after another (handle i for users[i]), none of them closed
RECURSIVE Registered(_)
Registered(users) ==
  IF users = << >> THEN NewConnectionManager
  ELSE LET n == Len(users)
       IN  addConnection(Registered(SubSeq(users, 1, n - 1)), users[n], n)

RECURSIVE Counted(_)
Counted(users) ==
  IF users = << >> THEN EmptyMap
  ELSE LET n == Len(users)
           before == SubSeq(users, 1, n - 1)
       IN  MapSet(Counted(before), users[n],
                  getUserSocketCount(Registered(before), users[n]) + 1)

InitAfter(users) ==
  /\ connectionManager = Registered(users)
  /\ userCache = [u \in {users[i] : i \in 1..Len(users)} |-> [cachedAt |-> 0]]
  /\ activeConnections = Counted(users)
  /\ conn = [s \in 1..Len(users) |->
               [NewSocket(users[s], "connected", "")
                  EXCEPT !.userId = users[s],
                         !.userConnectionCount =
                            getUserSocketCount(Registered(SubSeq(users, 1, s - 1)), users[s])]]
  /\ nextSocket = Len(users) + 1
  /\ arrived = 0
  /\ now = 0
  /\ messageTimestamps = [s \in 1..Len(users) |-> << >>]
  /\ typingTimeouts = [s \in 1..Len(users) |-> EmptyMap]
  /\ timers = {}
  /\ nextTimer = 1
  /\ tasks = EmptyMap
  /\ done = NoTask
  /\ invoked = 0
  /\ received = NoEvent
  /\ sendLog = EmptyMap
  /\ emitted = << >>
  /\ server = [intervals |-> {"globalCleanupInterval", "cleanupInterval"},
               closed |-> FALSE, fired |-> 0]

(***************************************************************************)
(* SpecCap: handshakes, registrations and disconnects around the cap.      *)
(* It starts with no connection, or with MaxPreConnected connections of u1 *)
(* already open, and lets MaxNewSockets more handshakes arrive, for either *)
(* user.                                                                   *)
(***************************************************************************)
InitCap ==
  /\ \E k \in {0, MaxPreConnected} : InitAfter([i \in 1..k |-> "u1"])
  /\ store = EmptyStore

NextCap ==
  \/ \E cred \in {c \in Credentials : c.id \in Users} :
       /\ arrived < MaxNewSockets
       /\ AuthMiddleware(nextSocket, cred)
  \/ \E s \in DOMAIN conn, outcome \in {"row", "error"} : AuthLookupDone(s, outcome)
  \/ \E s \in DOMAIN conn : Connection(s)
  \/ \E s \in DOMAIN conn :
       /\ Cardinality({c \in DOMAIN conn : conn[c].phase = "closed"}) < MaxDisconnects
       /\ Disconnect(s)

SpecCap == InitCap /\ [][NextCap]_vars

(***************************************************************************)
(* SpecFriend: friend-to-friend messaging between the open connections     *)
(* 1, 2 (of u1) and 3 (of u2). The friendship table is any subset of       *)
(* FriendshipUniverse and does not change.                                 *)
(***************************************************************************)
BoundedDisconnect ==
  \E s \in DOMAIN conn :
    /\ Cardinality({c \in DOMAIN conn : conn[c].phase = "closed"}) < MaxDisconnects
    /\ Disconnect(s)

FriendshipUniverse ==
  {[requester_id |-> "u1", addressee_id |-> "u2", status |-> "accepted"],
   [requester_id |-> "u2", addressee_id |-> "u1", status |-> "accepted"],
   [requester_id |-> "u1", addressee_id |-> "u2", status |-> "pending"]}

FriendPayloads ==
  {[recipientId |-> r, content |-> c] :
     r \in {NoId} \cup {Id(u) : u \in Users},
     c \in {Undefined, Str(<<" ">>), Str(<<" ", "a">>)}}

InitFriend ==
  /\ InitAfter(<<"u1", "u1", "u2">>)
  /\ \E fs \in SUBSET FriendshipUniverse : store = [EmptyStore EXCEPT !.friendships = fs]

NextFriend ==
  \/ BoundedDisconnect
  \/ \E s \in DOMAIN conn : invoked < MaxFriendEvents /\ JoinFriendsChat(s)
  \/ \E id \in DOMAIN tasks, outcome \in {"ok", "error", "throw"} :
       FriendshipsListed(id, outcome)
  \/ \E s \in DOMAIN conn, data \in FriendPayloads :
       invoked < MaxFriendEvents /\ SendFriendMessage(s, data)
  \/ \E id \in DOMAIN tasks, outcome \in {"ok", "error", "throw"} :
       FriendshipChecked(id, outcome)
  \/ \E id \in DOMAIN tasks, outcome \in {"ok", "error", "throw"} :
       FriendMessageInserted(id, outcome)

SpecFriend == InitFriend /\ [][NextFriend]_vars

(***************************************************************************)
(* SpecMsg: send_message and join_project_rooms on two connections, over   *)
(* a store with room r1 of project p1 and room r2 of project p2.           *)
(***************************************************************************)
ChatRooms ==
  {[id |-> "r1", project_id |-> "p1"], [id |-> "r2", project_id |-> "p2"]}

Member(projectId, userId) == [project_id |-> projectId, user_id |-> userId]

MessagePayloads ==
  {[roomId |-> r, projectId |-> p, content |-> c, replyToMessageId |-> m] :
     r \in {NoId, Id("r1"), Id("r2"), Id("r3")},
     p \in {NoId, Id("p1"), Id("p2")},
     c \in {Undefined, Str(<<" ">>), Str(<<"a", " ">>)},
     m \in {NoMessageId, MessageId(1)}}

InitMsg ==
  /\ InitAfter(<<"u1", "u2">>)
  /\ \E ms \in SUBSET {Member("p1", "u1"), Member("p2", "u1")} :
       store = [EmptyStore EXCEPT !.chat_rooms = ChatRooms,
                                  !.project_members = ms \cup {Member("p2", "u2")}]

NextMsg ==
  \/ BoundedDisconnect
  \/ \E s \in DOMAIN conn, projectId \in {"p1", "p2"} :
       invoked < MaxMsgEvents /\ JoinProjectRooms(s, projectId)
  \/ \E id \in DOMAIN tasks, mo \in {"ok", "error", "throw"}, ro \in {"ok", "error"} :
       ProjectRoomsLooked(id, mo, ro)
  \/ \E s \in DOMAIN conn, data \in MessagePayloads :
       invoked < MaxMsgEvents /\ SendMessage(s, data)
  \/ \E id \in DOMAIN tasks, ro \in {"ok", "error", "throw"}, mo \in {"ok", "error"} :
       MessageVerified(id, ro, mo)
  \/ \E id \in DOMAIN tasks, outcome \in {"ok", "error", "throw"} :
       MessageInserted(id, outcome)
  \/ \E id \in DOMAIN tasks, outcome \in {"ok", "error", "throw"} :
       ReplyFetched(id, outcome)

SpecMsg == InitMsg /\ [][NextMsg]_vars

(***************************************************************************)
(* SpecRate: one connection sends up to MaxRateSends messages, valid ones  *)
(* and invalid ones, while the clock advances; the store answers.          *)
(***************************************************************************)
ValidMessage ==
  [roomId |-> Id("r1"), projectId |-> Id("p1"), content |-> Str(<<"a">>),
   replyToMessageId |-> NoMessageId]

InvalidMessage == [ValidMessage EXCEPT !.content = Str(<<" ">>)]

InitRate ==
  /\ InitAfter(<<"u1">>)
  /\ store = [EmptyStore EXCEPT !.chat_rooms = ChatRooms,
                                !.project_members = {Member("p1", "u1")}]

NextRate ==
  \/ \E data \in {ValidMessage, InvalidMessage} :
       /\ invoked < MaxRateSends
       /\ Cardinality(DOMAIN tasks) < MaxInFlight
       /\ SendMessage(1, data)
  \/ \E id \in DOMAIN tasks : MessageVerified(id, "ok", "ok")
  \/ \E id \in DOMAIN tasks : MessageInserted(id, "ok")
  \/ now < MaxRateClock /\ Tick(RateTickMs)

SpecRate == InitRate /\ [][NextRate]_vars

(***************************************************************************)
(* SpecTyping: typing signals of two connections for two rooms, the typing *)
(* timers and the clock.                                                   *)
(***************************************************************************)
InitTyping ==
  /\ InitAfter(<<"u1", "u2">>)
  /\ store = [EmptyStore EXCEPT !.chat_rooms = {[id |-> "r1", project_id |-> "p1"],
                                                [id |-> "r2", project_id |-> "p1"]},
                                !.project_members = {Member("p1", "u1"), Member("p1", "u2")}]

NextTyping ==
  \/ BoundedDisconnect
  \/ \E s \in DOMAIN conn : invoked < MaxTypingEvents /\ JoinProjectRooms(s, "p1")
  \/ \E id \in DOMAIN tasks : ProjectRoomsLooked(id, "ok", "ok")
  \/ \E s \in DOMAIN conn, roomId \in {"r1", "r2"} :
       invoked < MaxTypingEvents /\ TypingStart(s, roomId, "p1")
  \/ \E s \in DOMAIN conn, roomId \in {"r1", "r2"} :
       invoked < MaxTypingEvents /\ TypingStop(s, roomId, "p1")
  \/ \E t \in timers : TypingTimeout(t)
  \/ now < MaxTypingTicks * TypingTickMs /\ Tick(TypingTickMs)

SpecTyping == InitTyping /\ [][NextTyping]_vars

(***************************************************************************)
(* SpecVideo: video calls among one connection of u1 and two of u2.        *)
(***************************************************************************)
VideoSignals == {"video_offer", "video_answer", "video_ice_candidate"}

InitVideo ==
  /\ InitAfter(<<"u1", "u2", "u2">>)
  /\ store = EmptyStore

NextVideo ==
  \/ BoundedDisconnect
  \/ \E s \in DOMAIN conn, roomId \in {"r1", "r2"} :
       /\ invoked < MaxVideoEvents
       /\ VideoCallJoin(s, [roomId |-> roomId, userId |-> conn[s].userId])
  \/ \E id \in DOMAIN tasks : VideoSocketsFetched(id)
  \/ \E s \in DOMAIN conn, ev \in VideoSignals, roomId \in {"r1", "r2"},
        targetUserId \in Users :
       invoked < MaxVideoEvents /\ VideoSignal(s, ev, roomId, targetUserId)
  \/ \E s \in DOMAIN conn, roomId \in {"r1", "r2"} :
       /\ invoked < MaxVideoEvents
       /\ VideoCallLeave(s, [roomId |-> roomId, userId |-> conn[s].userId])

SpecVideo == InitVideo /\ [][NextVideo]_vars

(***************************************************************************)
(* SpecRooms: two connections of u1, a member of p1 and p2, and one of u2, *)
(* a member of p1 only, join project rooms, ask who is online, disconnect. *)
(***************************************************************************)
InitRooms ==
  /\ InitAfter(<<"u1", "u1", "u2">>)
  /\ store = [EmptyStore EXCEPT
                !.chat_rooms = ChatRooms,
                !.project_members =
                   {Member("p1", "u1"), Member("p2", "u1"), Member("p1", "u2")}]

NextRooms ==
  \/ BoundedDisconnect
  \/ \E s \in DOMAIN conn, projectId \in {"p1", "p2"} :
       invoked < MaxRoomEvents /\ JoinProjectRooms(s, projectId)
  \/ \E id \in DOMAIN tasks, mo \in {"ok", "error", "throw"}, ro \in {"ok", "error"} :
       ProjectRoomsLooked(id, mo, ro)
  \/ \E s \in DOMAIN conn, projectId \in {"p1", "p2"} :
       invoked < MaxRoomEvents /\ GetOnlineUsers(s, projectId)

SpecRooms == InitRooms /\ [][NextRooms]_vars

(***************************************************************************)
(* SpecLong: one connection sends messages whose content is around         *)
(* MAX_MESSAGE_LENGTH units long.                                          *)
(***************************************************************************)
\* a content of n units: "b", then "a"s, then "c"
ContentOfLength(n) ==
  [i \in 1..n |-> IF i = 1 THEN "b" ELSE IF i = n THEN "c" ELSE "a"]

LongPayloads ==
  {[ValidMessage EXCEPT !.content = Str(ContentOfLength(n))] :
     n \in {2} \cup ((MAX_MESSAGE_LENGTH - 1)..(MAX_MESSAGE_LENGTH + MaxOverLength))}

NextLong ==
  \/ \E data \in LongPayloads : invoked < MaxLongEvents /\ SendMessage(1, data)
  \/ \E id \in DOMAIN tasks, ro \in {"ok", "error"}, mo \in {"ok", "error"} :
       MessageVerified(id, ro, mo)
  \/ \E id \in DOMAIN tasks, outcome \in {"ok", "error", "throw"} :
       MessageInserted(id, outcome)

SpecLong == InitRate /\ [][NextLong]_vars

(***************************************************************************)
(* SpecPayload: two connections send events with and without a payload.    *)
(***************************************************************************)
NextPayload ==
  \/ \E s \in DOMAIN conn, ev \in UnguardedEvents :
       invoked < MaxPayloadEvents /\ ThrowsWithoutPayload(s, ev)
  \/ \E s \in DOMAIN conn,
        ev \in LoggedEvents \cup {"send_friend_message", "video_call_join"} :
       invoked < MaxPayloadEvents /\ CatchesWithoutPayload(s, ev)
  \/ \E s \in DOMAIN conn : invoked < MaxPayloadEvents /\ SendMessageWithoutPayload(s)
  \/ \E s \in DOMAIN conn : invoked < MaxPayloadEvents /\ TypingStart(s, "r1", "p1")
  \/ \E s \in DOMAIN conn : invoked < MaxPayloadEvents /\ TypingStop(s, "r1", "p1")
  \/ \E s \in DOMAIN conn : invoked < MaxPayloadEvents /\ GetOnlineUsers(s, "p1")
  \/ \E t \in timers : TypingTimeout(t)
  \/ now < MaxTypingTicks * TypingTickMs /\ Tick(TypingTickMs)

SpecPayload == InitTyping /\ [][NextPayload]_vars

(***************************************************************************)
(* SpecAuth: handshakes with every kind of credential, while the cache     *)
(* ages. It starts with MaxPreConnected connections of u1 and one of u2    *)
(* open, their profiles cached at time 0; the clock moves to the end of    *)
(* the freshness window and then by one millisecond at a time.             *)
(***************************************************************************)
InitAuth ==
  /\ InitAfter([i \in 1..MaxPreConnected |-> "u1"] \o <<"u2">>)
  /\ store = EmptyStore

NextAuth ==
  \/ \E cred \in Credentials :
       /\ arrived < MaxAuthSockets
       /\ AuthMiddleware(nextSocket, cred)
  \/ \E s \in DOMAIN conn, outcome \in {"row", "error", "throw"} : AuthLookupDone(s, outcome)
  \/ \E s \in DOMAIN conn : Connection(s)
  \/ now < MaxAuthClock /\ Tick(IF now < USER_CACHE_TTL THEN USER_CACHE_TTL ELSE 1)

SpecAuth == InitAuth /\ [][NextAuth]_vars

(***************************************************************************)
(* SpecShutdown: connections 1, 2 (of u1) and 3 (of u2) join project rooms *)
(* and may close, the interval timers fire, and the process gets SIGTERM.  *)
(* After it no event is dispatched: the live connections are closed and    *)
(* the store calls that are in flight return.                              *)
(***************************************************************************)
NextShutdown ==
  \/ ~server.closed /\ BoundedDisconnect
  \/ \E s \in DOMAIN conn, projectId \in {"p1", "p2"} :
       /\ ~server.closed
       /\ invoked < MaxShutdownEvents
       /\ JoinProjectRooms(s, projectId)
  \/ \E id \in DOMAIN tasks : ProjectRoomsLooked(id, "ok", "ok")
  \/ server.fired < MaxIntervalFirings /\ cleanupStaleConnections
  \/ server.fired < MaxIntervalFirings /\ startCleanup
  \/ Sigterm
  \/ \E s \in DOMAIN conn : server.closed /\ Disconnect(s)

SpecShutdown == InitRooms /\ [][NextShutdown]_vars

(***************************************************************************)
(* SpecManyRooms: project p3 has MaxExtraRooms more chat rooms than the    *)
(* listing returns; connections 1 (of u1) and 2 (of u2), both members of   *)
(* p3 and of p1, join project rooms.                                       *)
(***************************************************************************)
ManyRooms ==
  {[id |-> "m" \o ToString(i), project_id |-> "p3"] : i \in 1..(ROOMS_LIMIT + MaxExtraRooms)}

InitManyRooms ==
  /\ InitAfter(<<"u1", "u2">>)
  /\ store = [EmptyStore EXCEPT
                !.chat_rooms = ChatRooms \cup ManyRooms,
                !.project_members = {Member("p3", "u1"), Member("p3", "u2"),
                                     Member("p1", "u1"), Member("p1", "u2")}]

NextManyRooms ==
  \/ BoundedDisconnect
  \/ \E s \in DOMAIN conn, projectId \in {"p1", "p3"} :
       invoked < MaxManyRoomEvents /\ JoinProjectRooms(s, projectId)
  \/ \E id \in DOMAIN tasks : ProjectRoomsLooked(id, "ok", "ok")

SpecManyRooms == InitManyRooms /\ [][NextManyRooms]_vars

(***************************************************************************)
(* SpecRegistry: the methods of UserConnectionManager called directly, in  *)
(* any order, on handles 1..MaxHandles of either user. Nothing else moves. *)
(***************************************************************************)
RegistryRooms == {<<"project", "p1">>, <<"room", "r1">>}

RegistryCall(cm) ==
  /\ connectionManager' = cm
  /\ UNCHANGED <<userCache, activeConnections, conn, nextSocket, arrived, now,
                 messageTimestamps, typingTimeouts, timers, nextTimer, tasks, done, invoked,
                 received, store, sendLog, emitted, server>>

Register(userId, socketId) == RegistryCall(addConnection(connectionManager, userId, socketId))

RecordRoom(socketId, room) == RegistryCall(addRoom(connectionManager, socketId, room))

Unregister(socketId) == RegistryCall(removeConnection(connectionManager, socketId))

InitRegistry ==
  /\ InitAfter(<< >>)
  /\ store = EmptyStore

NextRegistry ==
  \/ \E userId \in Users, socketId \in 1..MaxHandles : Register(userId, socketId)
  \/ \E socketId \in 1..MaxHandles, room \in RegistryRooms : RecordRoom(socketId, room)
  \/ \E socketId \in 1..MaxHandles : Unregister(socketId)

SpecRegistry == InitRegistry /\ [][NextRegistry]_vars

(***************************************************************************)
(* SpecSweep: the stale-entry sweep among handshakes and disconnects.      *)
(* No connection is open at first; MaxSweepSockets handshakes arrive, for  *)
(* either user, and a handshake may be abandoned by its client. A timer    *)
(* callback runs only between handshakes: the 'connection' of an accepted  *)
(* handshake is emitted in the same turn of the event loop (nextTick).     *)
(***************************************************************************)
InitSweep ==
  /\ InitAfter(<< >>)
  /\ store = EmptyStore

NextSweep ==
  \/ \E cred \in {c \in Credentials : c.id \in Users} :
       /\ arrived < MaxSweepSockets
       /\ AuthMiddleware(nextSocket, cred)
  \/ \E s \in DOMAIN conn : AuthLookupDone(s, "row")
  \/ \E s \in DOMAIN conn : Connection(s)
  \/ \E s \in DOMAIN conn : Abandon(s)
  \/ \E s \in DOMAIN conn :
       /\ Cardinality({c \in DOMAIN conn : conn[c].phase = "closed"}) < MaxSweepDisconnects
       /\ Disconnect(s)
  \/ /\ server.fired < MaxIntervalFirings
     /\ \A s \in DOMAIN conn : conn[s].phase # "authenticated"
     /\ cleanupStaleConnections

SpecSweep == InitSweep /\ [][NextSweep]_vars

(***************************************************************************)
(* SpecOnline: connections 1, 2 (of u1) and 3 (of u2) join the rooms of    *)
(* project p1, ask who is online in p1 or p2, and may close.               *)
(***************************************************************************)
NextOnline ==
  \/ BoundedDisconnect
  \/ \E s \in DOMAIN conn : invoked < MaxOnlineEvents /\ JoinProjectRooms(s, "p1")
  \/ \E id \in DOMAIN tasks : ProjectRoomsLooked(id, "ok", "ok")
  \/ \E s \in DOMAIN conn, projectId \in {"p1", "p2"} :
       invoked < MaxOnlineEvents /\ GetOnlineUsers(s, projectId)

SpecOnline == InitRooms /\ [][NextOnline]_vars

(***************************************************************************)
(* SpecSpoof: connections 1 (of u1), 2 and 3 (of u2) in video room r1; the *)
(* user id in a payload is whatever the client sends, its own or not.      *)
(***************************************************************************)
NextSpoof ==
  \/ BoundedDisconnect
  \/ \E s \in DOMAIN conn, userId \in Users :
       /\ invoked < MaxSpoofEvents
       /\ VideoCallJoin(s, [roomId |-> "r1", userId |-> userId])
  \/ \E id \in DOMAIN tasks : VideoSocketsFetched(id)
  \/ \E s \in DOMAIN conn, ev \in VideoSignals, targetUserId \in Users :
       invoked < MaxSpoofEvents /\ VideoSignal(s, ev, "r1", targetUserId)
  \/ \E s \in DOMAIN conn, userId \in Users :
       /\ invoked < MaxSpoofEvents
       /\ VideoCallLeave(s, [roomId |-> "r1", userId |-> userId])
  \/ \E s \in DOMAIN conn, ev \in {"screen_share_started", "screen_share_stopped"},
        userId \in Users :
       /\ invoked < MaxSpoofEvents
       /\ ScreenShare(s, ev, [roomId |-> "r1", userId |-> userId])
  \/ \E s \in DOMAIN conn, userId \in Users, message \in {Str(<<" ">>), Str(<<"a", " ">>)} :
       /\ invoked < MaxSpoofEvents
       /\ VideoCallMessage(s, [roomId |-> "r1", userId |-> userId, message |-> message])

SpecSpoof == InitVideo /\ [][NextSpoof]_vars

(***************************************************************************)
(* SpecPadded: the one connection of u1 sends messages whose content       *)
(* starts with whitespace: one character of it, or as much as the maximum  *)
(* length or one less, and then a letter.                                  *)
(***************************************************************************)
\* n characters of whitespace and then a letter
PaddedContent(n) == [i \in 1..(n + 1) |-> IF i <= n THEN " " ELSE "a"]

PaddedPayloads ==
  {[ValidMessage EXCEPT !.content = Str(PaddedContent(n))] :
     n \in {1, MAX_MESSAGE_LENGTH - 1, MAX_MESSAGE_LENGTH}}

NextPadded ==
  \/ \E data \in PaddedPayloads : invoked < MaxPaddedEvents /\ SendMessage(1, data)
  \/ \E id \in DOMAIN tasks : MessageVerified(id, "ok", "ok")
  \/ \E id \in DOMAIN tasks, outcome \in {"ok", "error"} : MessageInserted(id, outcome)

SpecPadded == InitRate /\ [][NextPadded]_vars

(***************************************************************************)
(* The claims                                                              *)
(***************************************************************************)
countForUser(userId) == getUserSocketCount(connectionManager, userId)

SocketsOf(userId, phases) ==
  {s \in DOMAIN conn : conn[s].userId = userId /\ conn[s].phase \in phases}

\* C1: in every reachable state, also while several handshakes of one user have
\* passed the limit check and are not yet registered, no user has more than 10
\* registered connection handles.
C1_AtMostCap == \A u \in Users : countForUser(u) <= MAX_CONNECTIONS_PER_USER

\* C2: with no disconnect so far and every accepted handshake of u registered,
\* countForUser(u) is the number N <= 10 of u's successful authentications; and a
\* handshake whose limit check reads countForUser(u) = 10 is rejected with
\* 'Maximum connections exceeded'.
C2_CountAndReject ==
  /\ \A u \in Users :
       LET N == Cardinality(SocketsOf(u, {"authenticated", "connected", "closed"}))
       IN  (/\ SocketsOf(u, {"closed"}) = {}
            /\ SocketsOf(u, {"authenticated"}) = {}
            /\ N <= MAX_CONNECTIONS_PER_USER) => countForUser(u) = N
  /\ \A s \in DOMAIN conn :
       conn[s].userConnectionCount = MAX_CONNECTIONS_PER_USER =>
         /\ conn[s].phase = "rejected"
         /\ conn[s].reason = "Maximum connections exceeded"

C2_Witness ==
  /\ countForUser("u1") = MAX_CONNECTIONS_PER_USER
  /\ SocketsOf("u1", {"closed", "authenticated"}) = {}
  /\ arrived > 1
  /\ countForUser("u2") = 1
  /\ \E s \in DOMAIN conn :
       /\ conn[s].tokenUser = "u1"
       /\ conn[s].reason = "Maximum connections exceeded"

(***************************************************************************)
(* send_message and the room's project                                     *)
(***************************************************************************)
RoomOutsideProject(data) ==
  /\ data.roomId.defined /\ data.projectId.defined
  /\ \A r \in ChatRoomRows(store.chat_rooms, data.roomId.value) :
       r.project_id # data.projectId.value

EventsNamed(es, names) == {i \in 1..Len(es) : es[i].ev \in names}

\* C3: a send_message whose room does not belong to the project named in its
\* payload is rejected before anything is persisted, also when the sender is a
\* member of the named project and the room is a room of another project.
C3_RoomOfProject ==
  (done.kind = "send_message" /\ RoomOutsideProject(done.data)) =>
    /\ done.result # "sent"
    /\ done.inserted = 0
    /\ EventsNamed(done.emits, {"new_message", "message_sent"}) = {}

(***************************************************************************)
(* send_friend_message and the friendship                                  *)
(***************************************************************************)
FriendshipOf(task) ==
  FriendshipRows(store.friendships, task.userId, task.data.recipientId.value)

\* C4: a send_friend_message between a sender and a recipient with no accepted
\* friendship row gives the sender an error and nothing else: no row is inserted
\* and neither friend_message nor friend_message_sent is emitted. So every row of
\* friend_messages is between users with an accepted friendship row.
C4_NoFriendship ==
  /\ (done.kind = "send_friend_message" /\ FriendshipOf(done) = {}) =>
       /\ done.inserted = 0
       /\ Len(done.emits) = 1
       /\ done.emits[1].ev = "error"
       /\ done.emits[1].to = {done.sock}
  /\ \A i \in 1..Len(store.friend_messages) :
       FriendshipRows(store.friendships, store.friend_messages[i].sender_id,
                      store.friend_messages[i].recipient_id) # {}

C4_Witness ==
  /\ done.kind = "send_friend_message"
  /\ done.result = "not_friends"
  /\ ~done.storeError
  /\ FriendshipOf(done) = {}
  /\ \E f \in store.friendships :
       f.status = "pending" /\ {f.requester_id, f.addressee_id} =
                                 {done.userId, done.data.recipientId.value}
  /\ done.emits = <<ErrorEvent(done.sock, "Not friends with this user")>>

\* C5: a send_friend_message with valid data and an accepted friendship row in
\* at least one direction (one of them, or both) persists exactly one message,
\* emits friend_message to the room user_{recipientId} only and
\* friend_message_sent to the sender, when the store fails no query.
C5_FriendshipEitherDirection ==
  (/\ done.kind = "send_friend_message"
   /\ done.data.recipientId.defined
   /\ ~BlankContent(done.data.content)
   /\ FriendshipOf(done) # {}
   /\ ~done.storeError) =>
    /\ done.result = "sent"
    /\ done.inserted = 1
    /\ Len(done.emits) = 2
    /\ done.emits[1].ev = "friend_message"
    /\ done.emits[1].room = <<"user", done.data.recipientId.value>>
    /\ done.emits[2].ev = "friend_message_sent"
    /\ done.emits[2].to = {done.sock}

(***************************************************************************)
(* The rate limiter of send_message                                        *)
(***************************************************************************)
\* the sends of connection s logged with a time in the window (t - 60000, t]
WindowKeys(s, t) == {k \in DOMAIN sendLog : k[1] = s /\ k[2] > t - 60000 /\ k[2] <= t}

RECURSIVE PassedTotal(_)
PassedTotal(keys) ==
  IF keys = {} THEN 0
  ELSE LET k == CHOOSE x \in keys : TRUE
       IN  sendLog[k].passed + PassedTotal(keys \ {k})

RECURSIVE ValidTotal(_)
ValidTotal(keys) ==
  IF keys = {} THEN 0
  ELSE LET k == CHOOSE x \in keys : TRUE
       IN  sendLog[k].valid + ValidTotal(keys \ {k})

RateLimitError(task) == <<ErrorEvent(task.sock, "Message rate limit exceeded")>>

\* C6: in every interleaving at most 10 sends of a connection pass the limiter
\* in any window of 60 seconds, the first 10 otherwise-valid sends of a window
\* succeed, and an otherwise-valid send is rejected, with 'Message rate limit
\* exceeded' and nothing persisted, only as the 11th or later otherwise-valid
\* send of its window.
C6_FirstTenValidSucceed ==
  /\ \A k \in DOMAIN sendLog : PassedTotal(WindowKeys(k[1], k[2])) <= 10
  /\ (done.kind = "send_message" /\ OtherwiseValid(done.userId, done.data)) =>
       LET valid == ValidTotal(WindowKeys(done.sock, done.data.now))
       IN  /\ valid <= 10 => done.result = "sent"
           /\ done.result = "rate_limited" =>
                /\ valid > 10
                /\ done.inserted = 0
                /\ done.emits = RateLimitError(done)

(***************************************************************************)
(* Typing indicators                                                       *)
(***************************************************************************)
TypingRooms == {"r1", "r2"}

IsTypingEvent(e, s, roomId) ==
  /\ e.ev \in {"user_typing", "user_stopped_typing"}
  /\ e.from = s
  /\ e.room = <<"room", roomId>>

TypingEventsOf(s, roomId) == SelectSeq(emitted, LAMBDA e : IsTypingEvent(e, s, roomId))

ArmedFor(armed, s, roomId) == {t \in armed : t.sock = s /\ t.room = roomId}

\* C7: a second typing_start with no stop and no expiry since the first
\* broadcasts nothing, so two user_typing broadcasts of a connection for a room
\* always have a user_stopped_typing of that connection and room between them.
C7_SecondStartSilent ==
  \A s \in DOMAIN conn, roomId \in TypingRooms :
    LET es == TypingEventsOf(s, roomId)
    IN  \A i \in 1..(Len(es) - 1) :
          es[i].ev = "user_typing" => es[i + 1].ev = "user_stopped_typing"

\* C8: at no time is more than one timer armed for a connection and room, and
\* the armed one is the one typingTimeouts holds; when a timer expires, which it
\* does no earlier than 5 seconds after the typing_start that armed it, exactly
\* one user_stopped_typing is broadcast for its connection and room, its entry is
\* removed and no timer stays armed for them.
C8_TimerExpiry ==
  /\ [](\A t \in timers :
          /\ ArmedFor(timers, t.sock, t.room) = {t}
          /\ MapHas(typingTimeouts[t.sock], t.room)
          /\ typingTimeouts[t.sock][t.room] = t.id)
  /\ [][\A t \in timers :
          (t \notin timers' /\ conn' = conn /\ invoked' = invoked) =>
            /\ now >= t.due
            /\ emitted' = Append(emitted, TypingEvent(conn, t.sock, "user_stopped_typing",
                                                      t.room, t.projectId))
            /\ ~MapHas(typingTimeouts'[t.sock], t.room)
            /\ ArmedFor(timers', t.sock, t.room) = {}]_vars

C8_Witness ==
  /\ invoked = 2
  /\ done.result = "joined"
  /\ Len(emitted) = 2
  /\ emitted[1].ev = "user_typing"
  /\ emitted[2].ev = "user_stopped_typing"
  /\ emitted[2].from = emitted[1].from /\ emitted[2].room = emitted[1].room
  /\ emitted[2].to # {}
  /\ timers = {}
  /\ typingTimeouts[emitted[1].from] = EmptyMap
  /\ now >= TYPING_TIMEOUT

\* C9: a typing_stop broadcasts user_stopped_typing at once and cancels the
\* armed timer: for an open connection and a room, a timer is armed exactly
\* while the last typing broadcast of the connection for the room is user_typing,
\* so no timer is left to broadcast a second user_stopped_typing after a stop.
C9_StopCancels ==
  \A s \in DOMAIN conn, roomId \in TypingRooms :
    conn[s].phase = "connected" =>
      LET es == TypingEventsOf(s, roomId)
          typing == es # << >> /\ es[Len(es)].ev = "user_typing"
      IN  /\ typing <=> ArmedFor(timers, s, roomId) # {}
          /\ typing <=> MapHas(typingTimeouts[s], roomId)

C9_Witness ==
  \E s \in DOMAIN conn, roomId \in TypingRooms :
    LET es == TypingEventsOf(s, roomId)
    IN  /\ conn[s].phase = "connected"
        /\ Len(es) = 2
        /\ es[1].ev = "user_typing" /\ es[2].ev = "user_stopped_typing"
        /\ es[2].to # {}
        /\ now < TYPING_TIMEOUT
        /\ ArmedFor(timers, s, roomId) = {}

(***************************************************************************)
(* Video signaling                                                         *)
(***************************************************************************)
SignalsOf(event) ==
  {i \in 1..Len(emitted) : emitted[i].ev \in VideoSignals /\ emitted[i].data.event = event}

\* C10: a video_offer, video_answer or video_ice_candidate is forwarded to one
\* connection only, a connection of the target user, also when the target user
\* has more than one connection in the video room.
C10_OneTarget ==
  \A i \in 1..Len(emitted) :
    emitted[i].ev \in VideoSignals =>
      /\ Cardinality(SignalsOf(emitted[i].data.event)) = 1
      /\ \A c \in emitted[i].to : conn[c].userId = emitted[i].data.targetUserId

\* the connections of user targetUserId that are in video_{roomId}
InVideoRoom(roomId, targetUserId) ==
  {c \in DOMAIN conn :
     /\ conn[c].phase = "connected"
     /\ conn[c].userId = targetUserId
     /\ <<"video", roomId>> \in conn[c].rooms}

\* C11: a step that handles a video_offer whose target user has no connection in
\* video_{roomId} emits nothing, to nobody (no error to the sender either), and
\* changes no state of the program.
C11_OfferWithoutTarget ==
  [][\A s \in DOMAIN conn, roomId \in {"r1", "r2"}, targetUserId \in Users :
       (/\ InVideoRoom(roomId, targetUserId) = {}
        /\ VideoSignal(s, "video_offer", roomId, targetUserId)) =>
         /\ emitted' = emitted
         /\ UNCHANGED <<connectionManager, userCache, activeConnections, conn,
                        messageTimestamps, typingTimeouts, timers, tasks, done, store>>]_vars

\* a video_offer was handled last, for a target that is in the other video room
\* only, and nothing was emitted for it
C11_Witness ==
  /\ received.ev = "video_offer"
  /\ received.data = [roomId |-> "r1", targetUserId |-> "u2"]
  /\ Len(emitted) = 1
  /\ emitted[1].ev = "video_participant_joined"
  /\ \E c \in DOMAIN conn :
       /\ conn[c].userId = "u2"
       /\ conn[c].rooms = {<<"video", "r2">>}
  /\ InVideoRoom("r1", "u2") = {}
  /\ tasks = EmptyMap

\* the events a step has added to emitted
NewlyEmitted == {emitted'[i] : i \in (Len(emitted) + 1)..Len(emitted')}

\* C12: when a connection that is in video_{roomId} disconnects, the remaining
\* participants of that video room get video_participant_left for its user; and
\* they get it on an explicit video_call_leave.
C12_LeftOnDisconnect ==
  [][\A s \in DOMAIN conn, roomId \in {"r1", "r2"} :
       LET remaining == InRoom(conn, <<"video", roomId>>) \ {s}
           notified ==
             \E e \in NewlyEmitted :
               /\ e.ev = "video_participant_left"
               /\ e.data = [userId |-> conn[s].userId, roomId |-> roomId]
               /\ e.to = remaining
       IN  /\ (/\ Disconnect(s)
                /\ <<"video", roomId>> \in conn[s].rooms
                /\ remaining # {}) => notified
           /\ VideoCallLeave(s, [roomId |-> roomId, userId |-> conn[s].userId]) => notified]_vars

(***************************************************************************)
(* Project rooms, presence and the registry                                *)
(***************************************************************************)
Projects == {"p1", "p2"}

\* the positions in emitted' of the events a step has added
NewIndices == (Len(emitted) + 1)..Len(emitted')

RegisteredProjects(s) ==
  {room[2] : room \in {r \in getRooms(connectionManager, s) : r[1] = "project"}}

\* C13: a disconnect emits one user_offline per project room in the connection's
\* registry membership, to the others in that project room, and no other
\* user_offline: two for a connection that joined two project rooms, none to a
\* chat room, a mailbox room or everybody.
C13_OfflinePerProjectRoom ==
  [][\A s \in DOMAIN conn :
       Disconnect(s) =>
         LET offline == {i \in NewIndices : emitted'[i].ev = "user_offline"}
         IN  /\ Cardinality(offline) = Cardinality(RegisteredProjects(s))
             /\ \A p \in RegisteredProjects(s) :
                  \E i \in offline :
                    /\ emitted'[i].room = <<"project", p>>
                    /\ emitted'[i].data = [userId |-> conn[s].userId, projectId |-> p]
                    /\ emitted'[i].to = InRoom(conn, <<"project", p>>) \ {s}]_vars

C13_Witness ==
  /\ Len(emitted) = 2
  /\ emitted[1].ev = "user_offline" /\ emitted[2].ev = "user_offline"
  /\ emitted[1].from = emitted[2].from
  /\ {emitted[1].room, emitted[2].room} = {<<"project", "p1">>, <<"project", "p2">>}
  /\ conn[emitted[1].from].phase = "closed"
  /\ tasks = EmptyMap

IsMember(userId, projectId) ==
  MembershipRows(store.project_members, projectId, userId) # {}

ProjectOfRoom(room) ==
  IF room[1] = "project" THEN {room[2]}
  ELSE IF room[1] = "room"
  THEN {r.project_id : r \in ChatRoomRows(store.chat_rooms, room[2])}
  ELSE {}

C15_DisconnectFrame ==
  [][\A s \in DOMAIN conn :
       Disconnect(s) =>
         /\ \A u \in Users :
              getUserSocketCount(connectionManager', u) =
                getUserSocketCount(connectionManager, u) - (IF u = conn[s].userId THEN 1 ELSE 0)
         /\ \A c \in DOMAIN conn \ {s} :
              /\ getRooms(connectionManager', c) = getRooms(connectionManager, c)
              /\ MapHas(connectionManager'.socketRooms, c)
                   <=> MapHas(connectionManager.socketRooms, c)]_vars

C15_Witness ==
  \E s \in DOMAIN conn, c \in DOMAIN conn :
    /\ s # c
    /\ conn[s].phase = "closed" /\ conn[c].phase = "connected"
    /\ conn[s].userId = "u1" /\ conn[c].userId = "u1"
    /\ countForUser("u1") = 1
    /\ getRooms(connectionManager, c) # {}

(***************************************************************************)
(* The length of a persisted message                                       *)
(***************************************************************************)
FirstUnits(content, n) == [i \in 1..(IF Len(content) < n THEN Len(content) ELSE n) |-> content[i]]

\* C16: a send_message that passes all checks is persisted with the first 5000
\* units of its content when the content is longer than 5000 units, and with its
\* content unchanged when it is at most 5000 units long; so no persisted content
\* is longer than 5000 units.
C16_Truncated ==
  /\ (done.kind = "send_message" /\ done.result = "sent") =>
       LET content == done.data.content.value
           row == store.chat_messages[done.inserted]
       IN  /\ Len(content) > 5000 => row.content = FirstUnits(content, 5000)
           /\ Len(content) <= 5000 => row.content = content
  /\ \A i \in 1..Len(store.chat_messages) : Len(store.chat_messages[i].content) <= 5000

C16_Witness ==
  /\ done.kind = "send_message" /\ done.result = "sent"
  /\ Len(done.data.content.value) = 5001
  /\ Len(store.chat_messages[done.inserted].content) = 5000
  /\ store.chat_messages[done.inserted].content[1] = "b"
  /\ store.chat_messages[done.inserted].content[5000] = "a"

\* C17: no handler invocation ends with an exception that nothing caught,
\* whatever the event and also when the event has no payload: it ends normally or
\* with an error event to the sender.
C17_NothingUncaught == done.result # "uncaught"

\* C18: in every state of the registry a connection handle is in at most one
\* user's set of handles, and no user maps to an empty set: a user's entry is
\* removed with its last handle.
C18_RegistryWellFormed ==
  LET userSockets == connectionManager.userSockets
  IN  \A u \in DOMAIN userSockets :
        /\ userSockets[u] # {}
        /\ \A v \in DOMAIN userSockets \ {u} : userSockets[u] \cap userSockets[v] = {}

C18_Witness ==
  \E s \in DOMAIN conn :
    /\ conn[s].phase = "closed"
    /\ ~MapHas(connectionManager.userSockets, conn[s].userId)
    /\ \E u \in DOMAIN connectionManager.userSockets :
         Cardinality(connectionManager.userSockets[u]) > 1

\* C19: once a connection has disconnected the registry holds no user-set
\* entry and no room-membership record for its handle, in any later state,
\* even when a join of that connection was awaiting the store at the
\* disconnect.
C19_NothingAfterDisconnect ==
  \A s \in DOMAIN conn :
    conn[s].phase = "closed" =>
      /\ ~MapHas(connectionManager.socketRooms, s)
      /\ ~MapHas(connectionManager.socketUsers, s)
      /\ \A u \in DOMAIN connectionManager.userSockets :
           s \notin connectionManager.userSockets[u]

TypingBroadcastsOf(log, s) ==
  SelectSeq(log, LAMBDA e : e.ev \in {"user_typing", "user_stopped_typing"} /\ e.from = s)

\* C20: on disconnect every armed typing timer of the connection is cancelled
\* and its timer map is emptied: a closed connection has no timer armed and no
\* entry in typingTimeouts, and no step broadcasts a user_typing or a
\* user_stopped_typing of a connection that is already closed.
C20_NoTypingAfterDisconnect ==
  /\ [](\A s \in DOMAIN conn :
          conn[s].phase = "closed" =>
            /\ typingTimeouts[s] = EmptyMap
            /\ {t \in timers : t.sock = s} = {})
  /\ [][\A s \in DOMAIN conn :
          conn[s].phase = "closed" =>
            TypingBroadcastsOf(emitted', s) = TypingBroadcastsOf(emitted, s)]_vars

C20_Witness ==
  \E s \in DOMAIN conn, roomId \in TypingRooms :
    LET es == TypingEventsOf(s, roomId)
    IN  /\ conn[s].phase = "closed"
        /\ es # << >>
        /\ es[Len(es)].ev = "user_typing"
        /\ es[Len(es)].to # {}
        /\ ArmedFor(timers, s, roomId) = {}
        /\ now >= TYPING_TIMEOUT

(***************************************************************************)
(* Rejected handshakes                                                     *)
(***************************************************************************)
RejectionReasons ==
  {"Authentication token required", "Authentication failed", "Invalid token structure",
   "Invalid authentication token", "Maximum connections exceeded"}

Rejected(c, s) == s \in DOMAIN c /\ c[s].phase = "rejected"

\* C21: a handshake that is rejected, for whichever reason, never enters the
\* registry: the step that rejects it leaves the registry's maps and the
\* provisional counter as they were, and a rejected handle is never in the
\* user's connection set nor has a room-membership record.
C21_RejectedLeavesNoTrace ==
  /\ [](\A s \in DOMAIN conn :
          Rejected(conn, s) =>
            /\ conn[s].reason \in RejectionReasons
            /\ ~MapHas(connectionManager.socketRooms, s)
            /\ ~MapHas(connectionManager.socketUsers, s)
            /\ \A u \in DOMAIN connectionManager.userSockets :
                 s \notin connectionManager.userSockets[u])
  /\ [][\A s \in DOMAIN conn' :
          (Rejected(conn', s) /\ ~Rejected(conn, s)) =>
            /\ connectionManager' = connectionManager
            /\ activeConnections' = activeConnections]_vars

C21_Witness ==
  \E s1, s2 \in DOMAIN conn :
    /\ Rejected(conn, s1) /\ conn[s1].reason = "Maximum connections exceeded"
    /\ Rejected(conn, s2) /\ conn[s2].reason = "Invalid authentication token"
    /\ conn[s2].tokenUser = "ghost"
    /\ countForUser("u1") = MAX_CONNECTIONS_PER_USER
    /\ activeConnections["u1"] = MAX_CONNECTIONS_PER_USER
    /\ ~MapHas(activeConnections, "ghost")

(***************************************************************************)
(* The profile cache at authentication                                     *)
(***************************************************************************)
Stale(userId) ==
  ~MapHas(userCache, userId) \/ now - userCache[userId].cachedAt > USER_CACHE_TTL

\* C25: a handshake with a valid credential reads the store exactly when the
\* cached profile of its user is absent or older than the 5-minute window; a
\* profile within the window is used without a store read. When the re-fetch
\* fails the handshake is rejected and the cache keeps what it had; when it
\* succeeds the profile is cached anew, at the time of the fetch.
C25_StaleProfileRefetched ==
  /\ [][\A s \in DOMAIN conn' \ DOMAIN conn :
          conn'[s].tokenUser # NoUser =>
            (conn'[s].phase = "lookup" <=> Stale(conn'[s].tokenUser))]_vars
  /\ [][\A s \in DOMAIN conn, outcome \in {"row", "error", "throw"} :
          (conn[s].phase = "lookup" /\ AuthLookupDone(s, outcome)) =>
            IF outcome = "row" /\ conn[s].tokenUser \in store.users
            THEN /\ ~Rejected(conn', s) \/ conn'[s].reason = "Maximum connections exceeded"
                 /\ userCache'[conn[s].tokenUser].cachedAt = now
            ELSE /\ Rejected(conn', s)
                 /\ conn'[s].reason \in {"Invalid authentication token",
                                         "Authentication failed"}
                 /\ userCache' = userCache]_vars

C25_Witness ==
  /\ now > USER_CACHE_TTL
  /\ userCache["u2"].cachedAt = now
  /\ userCache["u1"].cachedAt = 0
  /\ \E s1, s2 \in DOMAIN conn :
       /\ conn[s1].tokenUser = "u1" /\ Rejected(conn, s1)
       /\ conn[s1].reason = "Invalid authentication token"
       /\ conn[s2].tokenUser = "u2" /\ conn[s2].phase = "authenticated"
       /\ s2 > s1

(***************************************************************************)
(* Relay of a persisted room message                                       *)
(***************************************************************************)
EmitsNamed(task, ev) == SelectSeq(task.emits, LAMBDA e : e.ev = ev)

Persisted(task) == task.kind = "send_message" /\ task.inserted > 0

\* an invocation of send_message ends in this step, its message persisted
EndsPersisted == done' # done /\ Persisted(done')

\* C22: a persisted room message is emitted as new_message to every connection
\* in the room but the sender's, and the sender's connection gets exactly one
\* message_sent and no new_message.
C22_RelayedToOthers ==
  [][EndsPersisted =>
       LET room == <<"room", done'.data.roomId.value>>
           news == EmitsNamed(done', "new_message")
           acks == EmitsNamed(done', "message_sent")
       IN  /\ Len(news) = 1
           /\ news[1].room = room
           /\ news[1].to = InRoom(conn, room) \ {done'.sock}
           /\ Len(acks) = 1
           /\ acks[1].to = {done'.sock}]_vars

\* C23: when the lookup of the replied-to message fails, the persisted message
\* is still broadcast and acknowledged, without a reply_to, and the sender gets
\* no error event.
C23_ReplyBestEffort ==
  [][(EndsPersisted /\ done'.data.replyToMessageId.defined /\ done'.storeError) =>
       LET news == EmitsNamed(done', "new_message")
           acks == EmitsNamed(done', "message_sent")
       IN  /\ Len(news) = 1 /\ news[1].data.message.reply_to = NoMessageId
           /\ Len(acks) = 1 /\ acks[1].data.message.reply_to = NoMessageId
           /\ EmitsNamed(done', "error") = << >>]_vars

(***************************************************************************)
(* Shutdown                                                                *)
(***************************************************************************)
\* every live connection is closed and no store call is in flight
Quiescent == server.closed /\ Connected(conn) = {} /\ tasks = EmptyMap

RegistryEmpty ==
  /\ DOMAIN connectionManager.userSockets = {}
  /\ DOMAIN connectionManager.socketUsers = {}
  /\ DOMAIN connectionManager.socketRooms = {}

\* C24: after the shutdown signal neither interval timer fires again, and
\* once every live connection is closed (and what was in flight has returned)
\* the registry holds no connection and no room membership.
C24_ShutdownReleasesAll ==
  /\ [][server.closed => (server'.fired = server.fired /\ server'.intervals = {})]_vars
  /\ [](Quiescent => RegistryEmpty)

(***************************************************************************)
(* The registry's room-membership record                                   *)
(***************************************************************************)
\* C26: for every live connection the registry's room-membership set is the
\* set of rooms the connection has joined and not left: project room, chat
\* rooms, video-call rooms and the user-mailbox room.
C26_RegistryRoomsAreJoinedRooms ==
  \A s \in Connected(conn) : getRooms(connectionManager, s) = conn[s].rooms

(***************************************************************************)
(* A successful join_project_rooms                                         *)
(***************************************************************************)
RoomNamesOf(projectId) ==
  {<<"project", projectId>>}
    \cup {<<"room", r.id>> : r \in RoomsOfProject(store.chat_rooms, projectId)}

\* C27: when a join_project_rooms of a live connection succeeds, the
\* connection is in the project's room and in every chat room of the project,
\* the registry records each of these rooms for it, and the reply is one
\* rooms_joined with the list of the project's chat rooms.
C27_JoinsEveryRoom ==
  [][(/\ done' # done
      /\ done'.kind = "join_project_rooms"
      /\ done'.result = "joined"
      /\ done'.sock \in Connected(conn)) =>
       LET s == done'.sock
           projectId == done'.data.projectId
       IN  /\ RoomNamesOf(projectId) \subseteq conn'[s].rooms
           /\ RoomNamesOf(projectId) \subseteq getRooms(connectionManager', s)
           /\ done'.emits =
                <<EmitSelf(s, "rooms_joined",
                           [projectId |-> projectId,
                            rooms |-> RoomsOfProject(store.chat_rooms, projectId)])>>]_vars

(***************************************************************************)
(* Registration in the registry                                            *)
(***************************************************************************)
RegisteredFor(cm, userId, socketId) ==
  /\ MapHas(cm.socketUsers, socketId) /\ cm.socketUsers[socketId] = userId
  /\ MapHas(cm.userSockets, userId) /\ socketId \in cm.userSockets[userId]

\* C28: registering a handle that is already registered for the same user
\* leaves the registry as it was: the user's connection set and the handle's
\* room-membership record, with the rooms already joined.
C28_RegisterIdempotent ==
  [][\A userId \in Users, socketId \in 1..MaxHandles :
       (RegisteredFor(connectionManager, userId, socketId) /\ Register(userId, socketId)) =>
         connectionManager' = connectionManager]_vars

(***************************************************************************)
(* Invalid sends and the rate limiter                                      *)
(***************************************************************************)
\* a send_message with invalid data is handled in this step
InvalidSendHandled ==
  /\ invoked' # invoked
  /\ received'.ev = "send_message"
  /\ InvalidMessageData(received'.data)

\* C29: a send_message with a missing roomId, a missing projectId or content
\* that is empty after trimming is rejected with 'Invalid message data' and
\* nothing persisted, whatever the rate-limit window holds, and it takes no
\* quota: the connection's window of timestamps is as it was.
C29_InvalidSendTakesNoQuota ==
  [][InvalidSendHandled =>
       /\ done'.data = received'.data
       /\ done'.result = "invalid"
       /\ done'.emits = <<ErrorEvent(received'.sock, "Invalid message data")>>
       /\ store' = store
       /\ RecentMessages(messageTimestamps'[received'.sock], now - 60000)
            = RecentMessages(messageTimestamps[received'.sock], now - 60000)]_vars

(***************************************************************************)
(* user_stopped_typing without user_typing                                 *)
(***************************************************************************)
\* C30: for a connection and a room, every user_stopped_typing broadcast comes
\* right after a user_typing broadcast of the same pair, with no other
\* user_stopped_typing between them: a typing_stop received while idle
\* broadcasts nothing.
C30_StopOnlyAfterTyping ==
  \A s \in DOMAIN conn, roomId \in TypingRooms :
    LET es == TypingEventsOf(s, roomId)
    IN  \A i \in 1..Len(es) :
          es[i].ev = "user_stopped_typing" => (i > 1 /\ es[i - 1].ev = "user_typing")

(***************************************************************************)
(* The provisional counter: the sweep and the decrement                    *)
(***************************************************************************)
LiveUsers == {conn[s].userId : s \in Connected(conn)}

\* C31: the sweep deletes the counter entry of exactly the users with no live
\* connection, leaves the entries of the others as they are and does not touch
\* the registry; a disconnect lowers the counter of its user by one, not below
\* zero, deletes the entry when it reaches zero, and leaves the other entries.
C31_SweepAndDecrement ==
  /\ [][cleanupStaleConnections =>
          /\ DOMAIN activeConnections' = DOMAIN activeConnections \cap LiveUsers
          /\ \A u \in DOMAIN activeConnections' : activeConnections'[u] = activeConnections[u]
          /\ connectionManager' = connectionManager]_vars
  /\ [][\A s \in DOMAIN conn :
          Disconnect(s) =>
            LET u == conn[s].userId
                count == IF u \in DOMAIN activeConnections THEN activeConnections[u] ELSE 0
            IN  /\ IF count - 1 > 0
                   THEN u \in DOMAIN activeConnections' /\ activeConnections'[u] = count - 1
                   ELSE u \notin DOMAIN activeConnections'
                /\ \A v \in (DOMAIN activeConnections \cup DOMAIN activeConnections') \ {u} :
                     /\ v \in DOMAIN activeConnections /\ v \in DOMAIN activeConnections'
                     /\ activeConnections'[v] = activeConnections[v]]_vars

\* a sweep has deleted the stale entry that an abandoned handshake of u2 left,
\* and kept the entry of u1, who has a live connection
C31_Witness ==
  /\ server.fired > 0
  /\ \E s \in DOMAIN conn : conn[s].phase = "abandoned" /\ conn[s].userId = "u2"
  /\ "u2" \notin DOMAIN activeConnections
  /\ "u1" \in LiveUsers
  /\ "u1" \in DOMAIN activeConnections

(***************************************************************************)
(* get_online_users                                                        *)
(***************************************************************************)
\* the live connections of user u that are in the project's room
LiveInProject(u, projectId) ==
  {s \in Connected(conn) : conn[s].userId = u /\ <<"project", projectId>> \in conn[s].rooms}

TimesListed(users, u) == Cardinality({i \in 1..Len(users) : users[i].id = u})

\* C32: the handler of get_online_users replies in the step in which the event
\* is handled, with one online_users to the asking connection, which lists
\* every user once per live connection of the user that is in the project's
\* room at that moment: k times for k such connections, not at all for none.
C32_OnePerLiveConnection ==
  [][(invoked' # invoked /\ received'.ev = "get_online_users") =>
       LET projectId == received'.data.projectId
           reply == emitted'[Len(emitted')]
       IN  /\ Len(emitted') = Len(emitted) + 1
           /\ reply.ev = "online_users"
           /\ reply.to = {received'.sock}
           /\ reply.data.projectId = projectId
           /\ \A u \in Users :
                TimesListed(reply.data.users, u) = Cardinality(LiveInProject(u, projectId))
           /\ Len(reply.data.users) =
                Cardinality(UNION {LiveInProject(u, projectId) : u \in Users})]_vars

C32_Witness ==
  /\ received.ev = "get_online_users"
  /\ received.data.projectId = "p1"
  /\ emitted # << >>
  /\ LET reply == emitted[Len(emitted)]
     IN  /\ reply.ev = "online_users"
         /\ TimesListed(reply.data.users, "u1") = 2
         /\ TimesListed(reply.data.users, "u2") = 0
         /\ Cardinality(LiveInProject("u1", "p1")) = 2

(***************************************************************************)
(* Agreement of the three maps of the registry                             *)
(***************************************************************************)
UserMapsAgree(cm) ==
  /\ \A h \in DOMAIN cm.socketUsers :
       /\ MapHas(cm.userSockets, cm.socketUsers[h])
       /\ h \in cm.userSockets[cm.socketUsers[h]]
  /\ \A u \in DOMAIN cm.userSockets :
       \A h \in cm.userSockets[u] : MapHas(cm.socketUsers, h) /\ cm.socketUsers[h] = u

RECURSIVE SumOfSizes(_, _)
SumOfSizes(userSockets, users) ==
  IF users = {} THEN 0
  ELSE LET u == CHOOSE x \in users : TRUE
       IN  Cardinality(userSockets[u]) + SumOfSizes(userSockets, users \ {u})

\* C33: in every reachable state the three maps of the registry agree: h is
\* a key of the handle->user map with value u exactly when h is in the
\* connection set of u, the room-membership map has the same keys as the
\* handle->user map, and the number of handles is the sum of the sizes of the
\* users' connection sets.
C33_MapsAgree ==
  /\ UserMapsAgree(connectionManager)
  /\ DOMAIN connectionManager.socketRooms = DOMAIN connectionManager.socketUsers
  /\ Cardinality(DOMAIN connectionManager.socketUsers)
       = SumOfSizes(connectionManager.userSockets, DOMAIN connectionManager.userSockets)

(***************************************************************************)
(* user_offline and the user's other connections                           *)
(***************************************************************************)
\* C34: user_offline for user U and project P is emitted only when U has no
\* live connection left in project_P: in the state after the broadcast no live
\* connection of U is in the room, so a get_online_users for P handled then
\* does not list U.
C34_OfflineMeansGone ==
  [][\A e \in NewlyEmitted :
       e.ev = "user_offline" =>
         /\ LiveInProject(e.data.userId, e.data.projectId)' = {}
         /\ TimesListed(OnlineUsers(conn', e.data.projectId).users, e.data.userId) = 0]_vars

(***************************************************************************)
(* The user id of relayed video events                                     *)
(***************************************************************************)
RelayedVideoEvents ==
  {"video_participant_joined", "video_participant_left", "video_offer", "video_answer",
   "video_ice_candidate", "screen_share_started", "screen_share_stopped",
   "video_call_message"}

\* C35: the userId that a relayed video event carries is the authenticated
\* user id of the connection whose event triggered it, whatever user id the
\* client put in the payload.
C35_RelayedUserIsSender ==
  \A i \in 1..Len(emitted) :
    emitted[i].ev \in RelayedVideoEvents =>
      emitted[i].data.userId = conn[emitted[i].from].userId

(***************************************************************************)
(* Persisted content                                                       *)
(***************************************************************************)
\* C36: every persisted room chat message has content that is non-empty after
\* trimming, whatever content was submitted, also when its first 5000 units
\* are whitespace and a letter follows.
C36_PersistedNotBlank ==
  \A i \in 1..Len(store.chat_messages) : Trim(store.chat_messages[i].content) # << >>

(***************************************************************************)
(* friend_online and the live connections of its user                      *)
(***************************************************************************)
\* an invocation of join_friends_chat ends in this step
EndsJoinFriendsChat == done' # done /\ done'.kind = "join_friends_chat"

\* C37: when join_friends_chat broadcasts friend_online for a user to the
\* mailbox rooms of the friends, that user has at least one live connection,
\* also when the joining connection has disconnected while the friendship
\* query was awaited.
C37_OnlineMeansLive ==
  [][EndsJoinFriendsChat =>
       \A i \in 1..Len(done'.emits) :
          done'.emits[i].ev = "friend_online" =>
            \E s \in Connected(conn') : conn'[s].userId = done'.emits[i].data.userId]_vars

====
